---------------------------- MODULE Spec2Model ----------------------------
(***************************************************************************)
(* GenSnitch: evidence acquisition and verdict fusion pipeline.            *)
(*                                                                         *)
(* Strings are TLA+ strings; substring search and case folding are         *)
(* computed character by character.  An optional value (a TypeScript       *)
(* `x?: T`) is a sequence of length 0 (undefined) or 1 (the value).        *)
(***************************************************************************)
EXTENDS Integers, Sequences, FiniteSets, TLC

VARIABLES
    signals,    \* SpecFusion: the AnalysisSignals handed to createReport
    now,        \* Date.now(), the process clock
    runs,       \* SpecFusion: number of createReport calls made so far
    report,     \* the Report last produced (None before the first)
    c2paInput,  \* SpecC2PA: what the c2pa-web library yields for the image
    c2paResult, \* SpecC2PA: the C2PAResult of the offscreen analyzeC2PA (None before)
    job,        \* Spec: the image under analysis and what its analyzers will meet
    promises,   \* Spec: the promise of each of the three analyzers
    caught,     \* Spec: the rejection Promise.all passed to the catch block (None before)
    c2paInstance, \* SpecOffscreen: the C2PA SDK instance of the offscreen document (None = null)
    trustList,    \* SpecOffscreen: the cached trust list (None = null)
    initPromise,  \* SpecOffscreen: "null", "pending", or settled "true" / "false"
    initError,    \* SpecOffscreen: the initialisation error message (None = null)
    initTask,     \* SpecOffscreen: where the initialisation closure stands, and its history
    requests,     \* SpecOffscreen: the ANALYZE_C2PA requests of the offscreen document
    locator,      \* SpecAcquire: the image URL of the call and what its fetches will meet
    acq,          \* SpecAcquire: where the getImageBytes call stands, and its history
    inline,       \* SpecDataUrl: bytes and the data: URL a page made of them
    decoded,      \* SpecDataUrl: the bytes of the buffer getImageBytes returned (None before)
    handler,      \* SpecHandler: where the context menu click handler stands
    browser,      \* SpecHandler: chrome.storage.session and the windows opened
    pngData,      \* SpecPng: the buffer handed to analyzePngText
    pngResults,   \* SpecPng: the results of the calls made on it, in order
    walk,         \* SpecWalk: where the chunk loop of parsePngTextChunks stands
    creatingOffscreenDocument, \* SpecEnsure: the creation promise each module tracks (None = null)
    offscreenDocument,  \* SpecEnsure: the browser's offscreen document and its createDocument calls
    ensureCalls   \* SpecEnsure: the calls of ensureOffscreenDocument, each in its module

fusionVars == <<signals, runs>>
c2paVars == <<c2paInput, c2paResult>>
pipelineVars == <<job, promises, caught>>
offscreenVars == <<c2paInstance, trustList, initPromise, initError, initTask, requests>>
acquireVars == <<locator, acq>>
dataUrlVars == <<inline, decoded>>
handlerVars == <<handler, browser>>
pngVars == <<pngData, pngResults, walk>>
ensureVars == <<creatingOffscreenDocument, offscreenDocument, ensureCalls>>

vars ==
    <<signals, now, runs, report, c2paInput, c2paResult, job, promises, caught,
      c2paInstance, trustList, initPromise, initError, initTask, requests,
      locator, acq, inline, decoded, handler, browser, pngData, pngResults,
      walk, creatingOffscreenDocument, offscreenDocument, ensureCalls>>

-----------------------------------------------------------------------------
(* Bounds of the model *)

\* largest number of entries in an aiIndicators list that is enumerated
MaxIndicators == 4
\* createReport calls per behaviour of SpecFusion
MaxRuns == 2
\* last clock value
MaxClock == 1

-----------------------------------------------------------------------------
(* Optional values and small helpers *)

None == <<>>
Some(v) == <<v>>
IsSome(o) == o # <<>>

Min(a, b) == IF a <= b THEN a ELSE b

\* the module state of the offscreen document when its script has loaded:
\* c2paInstance, trustList, initPromise and initError are null
ModuleLoaded ==
    /\ c2paInstance = None /\ trustList = None
    /\ initPromise = None /\ initError = None

-----------------------------------------------------------------------------
(* String primitives of the JavaScript runtime *)

UpperCaseLetters == "ABCDEFGHIJKLMNOPQRSTUVWXYZ"
LowerCaseLetters == "abcdefghijklmnopqrstuvwxyz"

\* the lower-case letter of every upper-case letter
LowerOf ==
    LET RECURSIVE build(_)
        build(i) ==
            IF i = 0 THEN << >>
            ELSE (SubSeq(UpperCaseLetters, i, i) :> SubSeq(LowerCaseLetters, i, i))
                     @@ build(i - 1)
    IN  build(Len(UpperCaseLetters))

\* String.prototype.toLowerCase on one character
toLowerCaseChar(c) == IF c \in DOMAIN LowerOf THEN LowerOf[c] ELSE c

\* String.prototype.toLowerCase
RECURSIVE toLowerCase(_)
toLowerCase(s) ==
    IF Len(s) = 0 THEN ""
    ELSE IF Len(s) = 1 THEN toLowerCaseChar(s)
    ELSE LET half == Len(s) \div 2
         IN  toLowerCase(SubSeq(s, 1, half)) \o toLowerCase(SubSeq(s, half + 1, Len(s)))

\* String.prototype.includes
includes(s, p) ==
    \E i \in 1..(Len(s) - Len(p) + 1) : SubSeq(s, i, i + Len(p) - 1) = p

\* Array.prototype.join(', ')
RECURSIVE join(_)
join(xs) ==
    IF Len(xs) = 0 THEN ""
    ELSE IF Len(xs) = 1 THEN xs[1]
    ELSE xs[1] \o ", " \o join(Tail(xs))

-----------------------------------------------------------------------------
(* report.ts: the signal fusion / verdict engine *)

VERSION == "0.2.0"

AI_TOOL_PATTERNS ==
    << "chatgpt", "gpt-4", "gpt4", "openai",
       "stable diffusion", "stablediffusion",
       "midjourney", "dall-e", "dalle",
       "firefly", "imagen", "flux",
       "comfyui", "automatic1111", "a1111",
       "invoke", "diffusers",
       "ideogram", "leonardo",
       "runway", "pika",
       "sora", "kling", "haiper",
       "copilot", "gemini", "claude" >>

\* containsAIToolPattern(text: string | undefined)
containsAIToolPattern(text) ==
    IF ~IsSome(text) \/ text = Some("") THEN FALSE
    ELSE LET lower == toLowerCase(text[1])
         IN  \E i \in 1..Len(AI_TOOL_PATTERNS) : includes(lower, AI_TOOL_PATTERNS[i])

\* generateId(): `${Date.now().toString(36)}-${random}`
generateId(t, rnd) == <<t, rnd>>

\* signals.c2pa.summary?.<field>
summaryField(c2pa, f) == IF IsSome(c2pa.summary) THEN c2pa.summary[1][f] ELSE None

\* signals.c2pa.summary?.certificate?.<field>
certificateField(c2pa, f) ==
    IF IsSome(summaryField(c2pa, "certificate"))
    THEN summaryField(c2pa, "certificate")[1][f]
    ELSE None

\* the loop over summary.actions of determineVerdict
actionsIndicateAI(c2pa) ==
    /\ IsSome(summaryField(c2pa, "actions"))
    /\ \E i \in 1..Len(summaryField(c2pa, "actions")[1]) :
          LET action == summaryField(c2pa, "actions")[1][i]
          IN  /\ includes(action, "c2pa.created") \/ includes(action, "generated")
              /\ \/ containsAIToolPattern(summaryField(c2pa, "claimGenerator"))
                 \/ containsAIToolPattern(summaryField(c2pa, "issuer"))

\* determineVerdict without the AI-assertion test
determineVerdict_noAssertionRule(sig) ==
    IF \/ /\ sig.c2pa.present
          /\ \/ containsAIToolPattern(summaryField(sig.c2pa, "claimGenerator"))
             \/ containsAIToolPattern(summaryField(sig.c2pa, "issuer"))
             \/ containsAIToolPattern(certificateField(sig.c2pa, "subject"))
             \/ containsAIToolPattern(certificateField(sig.c2pa, "issuer"))
       \/ Len(sig.metadata.aiIndicators) > 0
       \/ Len(sig.pngText.aiIndicators) > 0
       \/ containsAIToolPattern(sig.metadata.software)
       \/ containsAIToolPattern(sig.metadata.creatorTool)
    THEN "AI_EVIDENCE"
    ELSE "NO_EVIDENCE"

\* determineVerdict testing metadata.software only, not creatorTool
determineVerdict_softwareOnly(sig) ==
    IF \/ /\ sig.c2pa.present
          /\ \/ /\ IsSome(summaryField(sig.c2pa, "aiAssertions"))
                /\ Len(summaryField(sig.c2pa, "aiAssertions")[1]) > 0
             \/ containsAIToolPattern(summaryField(sig.c2pa, "claimGenerator"))
             \/ containsAIToolPattern(summaryField(sig.c2pa, "issuer"))
             \/ containsAIToolPattern(certificateField(sig.c2pa, "subject"))
             \/ containsAIToolPattern(certificateField(sig.c2pa, "issuer"))
       \/ Len(sig.metadata.aiIndicators) > 0
       \/ Len(sig.pngText.aiIndicators) > 0
       \/ containsAIToolPattern(sig.metadata.software)
    THEN "AI_EVIDENCE"
    ELSE "NO_EVIDENCE"

determineVerdict(sig) ==
    IF /\ sig.c2pa.present
       /\ \/ /\ IsSome(summaryField(sig.c2pa, "aiAssertions"))
             /\ Len(summaryField(sig.c2pa, "aiAssertions")[1]) > 0
          \/ containsAIToolPattern(summaryField(sig.c2pa, "claimGenerator"))
          \/ containsAIToolPattern(summaryField(sig.c2pa, "issuer"))
          \/ containsAIToolPattern(certificateField(sig.c2pa, "subject"))
          \/ containsAIToolPattern(certificateField(sig.c2pa, "issuer"))
          \/ actionsIndicateAI(sig.c2pa)
    THEN "AI_EVIDENCE"
    ELSE IF Len(sig.metadata.aiIndicators) > 0 THEN "AI_EVIDENCE"
    ELSE IF Len(sig.pngText.aiIndicators) > 0 THEN "AI_EVIDENCE"
    ELSE IF \/ containsAIToolPattern(sig.metadata.software)
            \/ containsAIToolPattern(sig.metadata.creatorTool)
    THEN "AI_EVIDENCE"
    ELSE "NO_EVIDENCE"

\* hasSDParams of calculateConfidence
hasSDParams(pngText) ==
    \E i \in 1..Len(pngText.chunks) :
        /\ toLowerCase(pngText.chunks[i].key) = "parameters"
        /\ includes(toLowerCase(pngText.chunks[i].value), "steps:")

\* aiEvidenceScore adding the indicator counts without the cap of 3
aiEvidenceScore_uncapped(sig) ==
    (IF /\ sig.c2pa.present
        /\ \/ containsAIToolPattern(summaryField(sig.c2pa, "claimGenerator"))
           \/ containsAIToolPattern(summaryField(sig.c2pa, "issuer"))
     THEN 4 ELSE 0)
    + (IF /\ sig.c2pa.present
          /\ IsSome(summaryField(sig.c2pa, "aiAssertions"))
          /\ Len(summaryField(sig.c2pa, "aiAssertions")[1]) # 0
       THEN 3 ELSE 0)
    + (IF sig.c2pa.present /\ sig.c2pa.validated = "valid" THEN 2 ELSE 0)
    + Len(sig.metadata.aiIndicators)
    + Len(sig.pngText.aiIndicators)
    + (IF hasSDParams(sig.pngText) THEN 3 ELSE 0)

\* the additive score of the AI_EVIDENCE branch of calculateConfidence
aiEvidenceScore(sig) ==
    LET toolScore ==
            IF /\ sig.c2pa.present
               /\ \/ containsAIToolPattern(summaryField(sig.c2pa, "claimGenerator"))
                  \/ containsAIToolPattern(summaryField(sig.c2pa, "issuer"))
            THEN 4 ELSE 0
        assertionScore ==
            IF /\ sig.c2pa.present
               /\ IsSome(summaryField(sig.c2pa, "aiAssertions"))
               /\ Len(summaryField(sig.c2pa, "aiAssertions")[1]) # 0
            THEN 3 ELSE 0
        validScore ==
            IF sig.c2pa.present /\ sig.c2pa.validated = "valid" THEN 2 ELSE 0
        metadataIndicatorCount == Len(sig.metadata.aiIndicators)
        metadataScore ==
            IF metadataIndicatorCount > 0 THEN Min(metadataIndicatorCount, 3) ELSE 0
        pngIndicatorCount == Len(sig.pngText.aiIndicators)
        pngScore ==
            IF pngIndicatorCount > 0 THEN Min(pngIndicatorCount, 3) ELSE 0
        sdScore == IF hasSDParams(sig.pngText) THEN 3 ELSE 0
    IN  toolScore + assertionScore + validScore + metadataScore + pngScore + sdScore

\* calculateConfidence giving high to every present manifest, valid or not
calculateConfidence_presentOnly(verdict, sig) ==
    IF verdict = "ERROR" THEN "low"
    ELSE IF verdict = "NO_EVIDENCE"
    THEN IF sig.c2pa.present THEN "high"
         ELSE IF sig.metadata.found \/ sig.pngText.found THEN "medium"
         ELSE "low"
    ELSE IF aiEvidenceScore(sig) >= 5 THEN "high"
         ELSE IF aiEvidenceScore(sig) >= 2 THEN "medium"
         ELSE "low"

calculateConfidence(verdict, sig) ==
    IF verdict = "ERROR" THEN "low"
    ELSE IF verdict = "NO_EVIDENCE"
    THEN IF sig.c2pa.present /\ sig.c2pa.validated = "valid" THEN "high"
         ELSE IF sig.metadata.found \/ sig.pngText.found THEN "medium"
         ELSE "low"
    ELSE LET score == aiEvidenceScore(sig)
         IN  IF score >= 5 THEN "high"
             ELSE IF score >= 2 THEN "medium"
             ELSE "low"

\* notes.push(s) when cond holds
pushIf(cond, notes, s) == IF cond THEN Append(notes, s) ELSE notes

\* the C2PA block of generateNotes
c2paNotes(c2pa) ==
    LET n0 == <<>>
        n1 == IF c2pa.present
              THEN LET a1 == Append(n0, "Content Credentials (C2PA) found in image")
                       a2 == IF c2pa.validated = "valid"
                             THEN Append(a1, "Signature cryptographically verified")
                             ELSE IF c2pa.validated = "invalid"
                             THEN IF c2pa.trust = "untrusted" \/ c2pa.trust = "unknown"
                                  THEN Append(a1, "Signature valid but issuer not in trust list")
                                  ELSE Append(a1, "Signature verification failed")
                             ELSE a1
                       a3 == IF c2pa.trust = "trusted"
                             THEN Append(a2, "Issuer is in local trust list")
                             ELSE IF c2pa.trust = "untrusted"
                             THEN Append(a2, "Issuer is NOT in local trust list")
                             ELSE a2
                       cg == summaryField(c2pa, "claimGenerator")
                       a4 == pushIf(IsSome(cg) /\ cg # Some(""), a3,
                                    "Claim Generator: " \o (IF IsSome(cg) THEN cg[1] ELSE ""))
                       iss == summaryField(c2pa, "issuer")
                       a5 == pushIf(IsSome(iss) /\ iss # Some(""), a4,
                                    "Signed by: " \o (IF IsSome(iss) THEN iss[1] ELSE ""))
                       sub == certificateField(c2pa, "subject")
                       a6 == pushIf(IsSome(sub) /\ sub # Some(""), a5,
                                    "Certificate: " \o (IF IsSome(sub) THEN sub[1] ELSE ""))
                       ai == summaryField(c2pa, "aiAssertions")
                       a7 == IF IsSome(ai) /\ Len(ai[1]) # 0
                             THEN Append(a6, "AI Assertions: " \o join(ai[1]))
                             ELSE a6
                       act == summaryField(c2pa, "actions")
                       a8 == IF IsSome(act) /\ Len(act[1]) # 0
                             THEN Append(a7, "Actions: " \o join(act[1]))
                             ELSE a7
                   IN  a8
              ELSE IF c2pa.available
              THEN Append(n0, "No Content Credentials (C2PA) found")
              ELSE n0
    IN  n1 \o c2pa.errors

\* the metadata block of generateNotes
metadataNotes(metadata) ==
    IF metadata.found
    THEN LET sw == metadata.software
             m1 == pushIf(IsSome(sw) /\ sw # Some(""), <<>>,
                          "Software: " \o (IF IsSome(sw) THEN sw[1] ELSE ""))
             ct == metadata.creatorTool
             m2 == pushIf(IsSome(ct) /\ ct # Some(""), m1,
                          "Creator Tool: " \o (IF IsSome(ct) THEN ct[1] ELSE ""))
             m3 == pushIf(Len(metadata.aiIndicators) > 0, m2,
                          "Metadata AI indicators: " \o join(metadata.aiIndicators))
         IN  m3
    ELSE << "No EXIF/XMP metadata found in image" >>

RelevantChunkKeys == {"parameters", "prompt", "workflow", "comment", "description"}

\* the PNG block of generateNotes
pngTextNotes(pngText) ==
    IF pngText.found
    THEN LET relevantChunks ==
                 SelectSeq(pngText.chunks,
                           LAMBDA chunk : toLowerCase(chunk.key) \in RelevantChunkKeys)
             p1 == pushIf(Len(relevantChunks) > 0, <<>>,
                          "Found " \o ToString(Len(relevantChunks))
                              \o " relevant PNG text chunk(s)")
             p2 == pushIf(Len(pngText.aiIndicators) > 0, p1,
                          "PNG text AI indicators: " \o join(pngText.aiIndicators))
         IN  p2
    ELSE <<>>

\* generateNotes keeping its notes in a module-level array that is never reset:
\* a later call also returns the notes of the earlier calls
generateNotes_accumulating(sig, verdict) ==
    LET once == c2paNotes(sig.c2pa) \o metadataNotes(sig.metadata)
                    \o pngTextNotes(sig.pngText)
    IN  IF runs = 0 THEN once ELSE once \o once

generateNotes(sig, verdict) ==
    LET notes == c2paNotes(sig.c2pa) \o metadataNotes(sig.metadata)
                     \o pngTextNotes(sig.pngText)
    IN  IF verdict = "AI_EVIDENCE"
        THEN Append(notes,
                 "Evidence suggests this image was created or modified by AI tools")
        ELSE IF verdict = "NO_EVIDENCE"
        THEN Append(notes,
                 "No evidence of AI generation found in available metadata. This does NOT guarantee the image is authentic.")
        ELSE notes

\* createReport(url, signals); t is Date.now() and rnd the Math.random() draw
createReport(url, sig, t, rnd) ==
    LET verdict == determineVerdict(sig)
        confidence == calculateConfidence(verdict, sig)
        notes == generateNotes(sig, verdict)
    IN  [ id |-> generateId(t, rnd),
          url |-> url,
          timestamp |-> t,
          verdict |-> verdict,
          confidence |-> confidence,
          signals |-> sig,
          notes |-> notes,
          version |-> VERSION ]

\* createErrorReport(url, error)
createErrorReport(url, error, t, rnd) ==
    [ id |-> generateId(t, rnd),
      url |-> url,
      timestamp |-> t,
      verdict |-> "ERROR",
      confidence |-> "low",
      signals |->
          [ c2pa |-> [ available |-> FALSE, present |-> FALSE,
                       validated |-> "unknown", trust |-> "unknown",
                       summary |-> None, errors |-> <<error>> ],
            metadata |-> [ found |-> FALSE, software |-> None,
                           creatorTool |-> None, aiIndicators |-> <<>> ],
            pngText |-> [ found |-> FALSE, chunks |-> <<>>, aiIndicators |-> <<>> ] ],
      notes |-> << "Analysis failed: " \o error >>,
      version |-> VERSION ]

-----------------------------------------------------------------------------
(* pngText.ts: the binary chunk parser.  A buffer is a sequence of bytes    *)
(* (0..255); the code's 0-based offset o is index o + 1 here.              *)

PNG_SIGNATURE == << 137, 80, 78, 71, 13, 10, 26, 10 >>
MAX_CHUNK_DISPLAY_LENGTH == 500

AI_RELATED_KEYS ==
    << "parameters", "sd-metadata", "prompt", "negative_prompt", "negativeprompt",
       "workflow", "comfyui", "automatic1111", "a1111", "dream", "generation_data",
       "ai_metadata", "source", "comment", "description", "software", "creator" >>

AI_VALUE_PATTERNS ==
    << "steps:", "sampler:", "cfg scale:", "seed:", "model:", "model hash:",
       "clip skip:", "lora:", "negative prompt:", "stable diffusion", "comfyui",
       "automatic1111", "midjourney", "dall-e", "flux", "sdxl" >>

\* the characters of codes 32..95 and of codes 97..126, in code order
AsciiLow == " !\"#$%&'()*+,-./0123456789:;<=>?@ABCDEFGHIJKLMNOPQRSTUVWXYZ[\\]^_"
AsciiHigh == "abcdefghijklmnopqrstuvwxyz{|}~"

\* what TextDecoder yields for any other byte (a control character, U+FFFD, or
\* the grave accent, which a TLA+ string cannot hold): one character that is
\* none of the above
OtherChar == "\t"

\* TextDecoder('utf-8', { fatal: false }) on one byte
decodeByte(b) ==
    IF 32 <= b /\ b <= 95 THEN SubSeq(AsciiLow, b - 31, b - 31)
    ELSE IF 97 <= b /\ b <= 126 THEN SubSeq(AsciiHigh, b - 96, b - 96)
    ELSE OtherChar

\* decodeString(data)
RECURSIVE decodeString(_)
decodeString(data) ==
    IF Len(data) = 0 THEN ""
    ELSE IF Len(data) = 1 THEN decodeByte(data[1])
    ELSE LET half == Len(data) \div 2
         IN  decodeString(SubSeq(data, 1, half))
             \o decodeString(SubSeq(data, half + 1, Len(data)))

\* Uint8Array.prototype.slice(begin, end), 0-based, end exclusive and clamped
slice(data, begin, end) ==
    IF begin >= Min(end, Len(data)) THEN <<>> ELSE SubSeq(data, begin + 1, Min(end, Len(data)))

\* Uint8Array.prototype.indexOf(0): the 0-based index of the first zero byte, or -1
indexOfZero(data) ==
    IF \E i \in 1..Len(data) : data[i] = 0
    THEN (CHOOSE i \in 1..Len(data) : data[i] = 0 /\ \A j \in 1..(i - 1) : data[j] # 0) - 1
    ELSE -1

\* data[i] of a Uint8Array used as a number: an index past the end reads as undefined
byteAt(data, i) == IF 0 <= i /\ i < Len(data) THEN data[i + 1] ELSE -1

\* isPNG comparing the first four bytes only
isPNG_firstFour(data) ==
    /\ Len(data) >= 8
    /\ \A i \in 0..3 : data[i + 1] = PNG_SIGNATURE[i + 1]

isPNG(data) ==
    /\ Len(data) >= 8
    /\ \A i \in 0..7 : data[i + 1] = PNG_SIGNATURE[i + 1]

\* readUint32BE(data, offset): the unsigned value of four big-endian bytes.
\* A value of 2^31 or more (first byte >= 128) is written as 2^31 - 1, the
\* largest integer the checker holds; like the value itself it is larger than
\* the length of any buffer.
readUint32BE(data, offset) ==
    IF data[offset + 1] >= 128 THEN 2147483647
    ELSE data[offset + 1] * 16777216 + data[offset + 2] * 65536
         + data[offset + 3] * 256 + data[offset + 4]

\* tryDecompress(data): null (None) or the inflated text.  inflated is what
\* DecompressionStream('deflate') produces for the payload, None when it errors
tryDecompress(data, inflated) ==
    IF Len(data) < 2 THEN None
    ELSE IF (data[1] * 256 + data[2]) % 31 # 0 THEN None
    ELSE inflated

DecompressionFailed == "[compressed - decompression failed]"

\* the value pushed for a compressed payload: `if (decompressed)` is false for
\* null and for the empty string
decompressedValue(data, inflated) ==
    LET decompressed == tryDecompress(data, inflated)
    IN  IF IsSome(decompressed) /\ decompressed # Some("")
        THEN decompressed[1] ELSE DecompressionFailed

\* the tEXt branch of parsePngTextChunks
parseTEXt(type, chunkData) ==
    LET nullIndex == indexOfZero(chunkData)
    IN  IF nullIndex > 0
        THEN << [ type |-> type,
                  key |-> decodeString(slice(chunkData, 0, nullIndex)),
                  value |-> decodeString(slice(chunkData, nullIndex + 1, Len(chunkData))) ] >>
        ELSE <<>>

\* the zTXt branch pushing nothing when the decompression fails
parseZTXt_skipsFailed(type, chunkData, inflated) ==
    LET nullIndex == indexOfZero(chunkData)
    IN  IF nullIndex > 0 /\ nullIndex + 2 < Len(chunkData)
           /\ byteAt(chunkData, nullIndex + 1) = 0
           /\ IsSome(tryDecompress(slice(chunkData, nullIndex + 2, Len(chunkData)), inflated))
        THEN << [ type |-> type,
                  key |-> decodeString(slice(chunkData, 0, nullIndex)),
                  value |-> tryDecompress(slice(chunkData, nullIndex + 2, Len(chunkData)),
                                          inflated)[1] ] >>
        ELSE <<>>

\* the zTXt branch of parsePngTextChunks
parseZTXt(type, chunkData, inflated) ==
    LET nullIndex == indexOfZero(chunkData)
    IN  IF nullIndex > 0 /\ nullIndex + 2 < Len(chunkData)
        THEN IF byteAt(chunkData, nullIndex + 1) = 0
             THEN << [ type |-> type,
                       key |-> decodeString(slice(chunkData, 0, nullIndex)),
                       value |-> decompressedValue(
                                     slice(chunkData, nullIndex + 2, Len(chunkData)),
                                     inflated) ] >>
             ELSE <<>>
        ELSE <<>>

\* the two skip loops of the iTXt branch: the first index >= start holding a
\* zero byte, or the length of the chunk
RECURSIVE skipToZero(_, _)
skipToZero(chunkData, start) ==
    IF start < Len(chunkData) /\ chunkData[start + 1] # 0
    THEN skipToZero(chunkData, start + 1)
    ELSE start

\* the iTXt branch of parsePngTextChunks
parseITXt(type, chunkData, inflated) ==
    LET nullIndex == indexOfZero(chunkData)
    IN  IF nullIndex > 0
        THEN LET compressionFlag == byteAt(chunkData, nullIndex + 1)
                 afterLanguage == skipToZero(chunkData, nullIndex + 3) + 1
                 textStart == skipToZero(chunkData, afterLanguage) + 1
             IN  IF textStart < Len(chunkData)
                 THEN LET textData == slice(chunkData, textStart, Len(chunkData))
                      IN  << [ type |-> type,
                               key |-> decodeString(slice(chunkData, 0, nullIndex)),
                               value |-> IF compressionFlag = 1
                                         THEN decompressedValue(textData, inflated)
                                         ELSE decodeString(textData) ] >>
                 ELSE <<>>
        ELSE <<>>

\* the while loop of parsePngTextChunks giving up what it has parsed when it
\* meets a chunk length that runs past the end of the buffer
RECURSIVE walkChunks_discardsOnDamage(_, _, _, _)
walkChunks_discardsOnDamage(data, offset, chunks, inflated) ==
    IF ~(offset < Len(data) - 12) THEN chunks
    ELSE LET length == readUint32BE(data, offset)
             type == decodeString(slice(data, offset + 4, offset + 8))
         IN  IF length > Len(data) - offset - 12 THEN <<>>
             ELSE LET chunkData == slice(data, offset + 8, offset + 8 + length)
                  IN  IF type = "IEND" THEN chunks
                      ELSE walkChunks_discardsOnDamage(data, offset + 12 + length,
                               chunks \o
                                   ( IF type = "tEXt" THEN parseTEXt(type, chunkData)
                                     ELSE IF type = "zTXt"
                                     THEN parseZTXt(type, chunkData, inflated)
                                     ELSE IF type = "iTXt"
                                     THEN parseITXt(type, chunkData, inflated)
                                     ELSE <<>> ),
                               inflated)

\* the while loop of parsePngTextChunks, from the given offset on
RECURSIVE walkChunks(_, _, _, _)
walkChunks(data, offset, chunks, inflated) ==
    IF ~(offset < Len(data) - 12) THEN chunks
    ELSE LET length == readUint32BE(data, offset)
             type == decodeString(slice(data, offset + 4, offset + 8))
         IN  IF length > Len(data) - offset - 12 THEN chunks
             ELSE LET chunkData == slice(data, offset + 8, offset + 8 + length)
                  IN  IF type = "IEND" THEN chunks
                      ELSE walkChunks(data, offset + 12 + length,
                               chunks \o
                                   ( IF type = "tEXt" THEN parseTEXt(type, chunkData)
                                     ELSE IF type = "zTXt"
                                     THEN parseZTXt(type, chunkData, inflated)
                                     ELSE IF type = "iTXt"
                                     THEN parseITXt(type, chunkData, inflated)
                                     ELSE <<>> ),
                               inflated)

\* offset += length, without the 12 bytes of length, type and checksum
nextOffset_payloadOnly(offset, length) == offset + length

\* offset += 12 + length
nextOffset(offset, length) == offset + 12 + length

parsePngTextChunks(data, inflated) == walkChunks(data, 8, <<>>, inflated)

\* findChunkAIIndicators(value)
findChunkAIIndicators(value) ==
    LET lowerValue == toLowerCase(value)
    IN  SelectSeq(AI_VALUE_PATTERNS, LAMBDA pattern : includes(lowerValue, toLowerCase(pattern)))

\* the inner loop of analyzePngText adding the unseen value indicators
RECURSIVE addIndicators(_, _, _)
addIndicators(valueIndicators, aiIndicators, seenIndicators) ==
    IF valueIndicators = <<>> THEN << aiIndicators, seenIndicators >>
    ELSE LET lower == toLowerCase(Head(valueIndicators))
         IN  IF lower \notin seenIndicators
             THEN addIndicators(Tail(valueIndicators),
                                Append(aiIndicators, Head(valueIndicators)),
                                seenIndicators \cup { lower })
             ELSE addIndicators(Tail(valueIndicators), aiIndicators, seenIndicators)

\* substring(0, n) keeping one character more
substring_oneMore(str, n) == SubSeq(str, 1, Min(n + 1, Len(str)))

\* String.prototype.substring(0, n)
substring(str, n) == SubSeq(str, 1, Min(n, Len(str)))

\* the loop of analyzePngText over rawChunks
RECURSIVE scanChunks(_, _, _, _)
scanChunks(rawChunks, chunks, aiIndicators, seenIndicators) ==
    IF rawChunks = <<>>
    THEN [ found |-> TRUE, chunks |-> chunks, aiIndicators |-> aiIndicators ]
    ELSE LET chunk == Head(rawChunks)
             isAIKey == \E i \in 1..Len(AI_RELATED_KEYS) :
                            includes(toLowerCase(chunk.key), AI_RELATED_KEYS[i])
             afterValue == addIndicators(findChunkAIIndicators(chunk.value),
                                         aiIndicators, seenIndicators)
             keyIsNew == isAIKey /\ toLowerCase(chunk.key) \notin afterValue[2]
             truncated == Len(chunk.value) > MAX_CHUNK_DISPLAY_LENGTH
             displayValue == IF truncated
                             THEN substring(chunk.value, MAX_CHUNK_DISPLAY_LENGTH)
                             ELSE chunk.value
         IN  scanChunks(Tail(rawChunks),
                        Append(chunks, [ key |-> chunk.key, value |-> displayValue,
                                         truncated |-> truncated ]),
                        IF keyIsNew
                        THEN Append(afterValue[1], "PNG key: " \o chunk.key)
                        ELSE afterValue[1],
                        IF keyIsNew
                        THEN afterValue[2] \cup { toLowerCase(chunk.key) }
                        ELSE afterValue[2])

NoPngText == [ found |-> FALSE, chunks |-> <<>>, aiIndicators |-> <<>> ]

\* analyzePngText(data) without the early return on an empty chunk list
analyzePngText_foundWithoutChunks(data, inflated) ==
    IF ~isPNG(data) THEN NoPngText
    ELSE scanChunks(parsePngTextChunks(data, inflated), <<>>, <<>>, {})

\* analyzePngText(data)
analyzePngText(data, inflated) ==
    IF ~isPNG(data) THEN NoPngText
    ELSE LET rawChunks == parsePngTextChunks(data, inflated)
         IN  IF Len(rawChunks) = 0 THEN NoPngText
             ELSE scanChunks(rawChunks, <<>>, <<>>, {})

-----------------------------------------------------------------------------
(* offscreen.ts: the manifest trust classifier.  Its input is what the     *)
(* c2pa-web library yields for the image: whether initialization worked,   *)
(* what reader.fromBlob did, the manifest store and the active manifest.   *)

\* success?.some(s => s.code === 'claimSignature.validated' || ...) ?? false;
\* entries is the optional list of the (optional) codes
someSignatureValidated(entries) ==
    /\ IsSome(entries)
    /\ \E i \in 1..Len(entries[1]) :
          \/ entries[1][i] = Some("claimSignature.validated")
          \/ entries[1][i] = Some("claimSignature.insideValidity")

\* failure?.every(s => s.code?.includes('untrusted') || s.code?.includes('trust')) ?? false
everyTrustRelated(entries) ==
    /\ IsSome(entries)
    /\ \A i \in 1..Len(entries[1]) :
          /\ IsSome(entries[1][i])
          /\ includes(entries[1][i][1], "untrusted") \/ includes(entries[1][i][1], "trust")

\* validationResults?.activeManifest?.<list>
resultList(validationResults, list) ==
    IF IsSome(validationResults) /\ IsSome(validationResults[1].activeManifest)
    THEN validationResults[1].activeManifest[1][list]
    ELSE None

signatureValid(validationResults) ==
    someSignatureValidated(resultList(validationResults, "success"))

\* the failure test asking for some trust-related entry instead of every one
onlyTrustFailure_someTrustRelated(validationResults) ==
    LET failure == resultList(validationResults, "failure")
    IN  /\ IsSome(failure)
        /\ \E i \in 1..Len(failure[1]) :
              /\ IsSome(failure[1][i])
              /\ includes(failure[1][i][1], "untrusted") \/ includes(failure[1][i][1], "trust")

onlyTrustFailure(validationResults) ==
    everyTrustRelated(resultList(validationResults, "failure"))

\* validation_status.some(s => code has 'signature' and ('error' or 'invalid'))
hasSignatureFailure(status) ==
    \E i \in 1..Len(status) :
        /\ IsSome(status[i])
        /\ includes(toLowerCase(status[i][1]), "signature")
        /\ \/ includes(toLowerCase(status[i][1]), "error")
           \/ includes(toLowerCase(status[i][1]), "invalid")

\* validation_status.some(s => s.code?.toLowerCase().includes('untrusted'))
hasUntrusted(status) ==
    \E i \in 1..Len(status) :
        IsSome(status[i]) /\ includes(toLowerCase(status[i][1]), "untrusted")

\* the classification with the Invalid branch never reporting a valid signature
classifyValidation_invalidIsInvalid(manifestStore) ==
    LET validationState == manifestStore.validation_state
    IN  IF validationState = Some("Trusted")
        THEN [ validated |-> "valid", trust |-> "trusted" ]
        ELSE IF validationState = Some("Valid")
        THEN [ validated |-> "valid", trust |-> "untrusted" ]
        ELSE IF validationState = Some("Invalid")
        THEN [ validated |-> "invalid", trust |-> "unknown" ]
        ELSE IF IsSome(manifestStore.validation_status)
        THEN [ validated |-> IF hasSignatureFailure(manifestStore.validation_status[1])
                             THEN "invalid" ELSE "valid",
               trust |-> IF hasUntrusted(manifestStore.validation_status[1])
                         THEN "untrusted" ELSE "unknown" ]
        ELSE [ validated |-> "unknown", trust |-> "unknown" ]

\* the classification trusting the detail lists before the reported state
classifyValidation_detailsFirst(manifestStore) ==
    LET validationState == manifestStore.validation_state
        sigValid == signatureValid(manifestStore.validation_results)
        trustOnly == onlyTrustFailure(manifestStore.validation_results)
    IN  IF sigValid /\ trustOnly THEN [ validated |-> "valid", trust |-> "untrusted" ]
        ELSE IF validationState = Some("Trusted")
        THEN [ validated |-> "valid", trust |-> "trusted" ]
        ELSE IF validationState = Some("Valid")
        THEN [ validated |-> "valid", trust |-> "untrusted" ]
        ELSE IF validationState = Some("Invalid")
        THEN IF sigValid THEN [ validated |-> "valid", trust |-> "unknown" ]
             ELSE [ validated |-> "invalid", trust |-> "unknown" ]
        ELSE [ validated |-> "unknown", trust |-> "unknown" ]

\* the classification taking any success entry for a valid signature
classifyValidation_anySuccess(manifestStore) ==
    LET validationState == manifestStore.validation_state
        success == resultList(manifestStore.validation_results, "success")
        sigValid == IsSome(success) /\ Len(success[1]) > 0
        trustOnly == onlyTrustFailure(manifestStore.validation_results)
    IN  IF validationState = Some("Trusted")
        THEN [ validated |-> "valid", trust |-> "trusted" ]
        ELSE IF validationState = Some("Valid")
        THEN [ validated |-> "valid", trust |-> "untrusted" ]
        ELSE IF validationState = Some("Invalid")
        THEN IF sigValid /\ trustOnly THEN [ validated |-> "valid", trust |-> "untrusted" ]
             ELSE IF sigValid THEN [ validated |-> "valid", trust |-> "unknown" ]
             ELSE [ validated |-> "invalid", trust |-> "unknown" ]
        ELSE [ validated |-> "unknown", trust |-> "unknown" ]

\* the validation status and trust level analyzeC2PA derives from the store
classifyValidation(manifestStore) ==
    LET validationState == manifestStore.validation_state
        sigValid == signatureValid(manifestStore.validation_results)
        trustOnly == onlyTrustFailure(manifestStore.validation_results)
    IN  IF validationState = Some("Trusted")
        THEN [ validated |-> "valid", trust |-> "trusted" ]
        ELSE IF validationState = Some("Valid")
        THEN [ validated |-> "valid", trust |-> "untrusted" ]
        ELSE IF validationState = Some("Invalid")
        THEN IF sigValid /\ trustOnly THEN [ validated |-> "valid", trust |-> "untrusted" ]
             ELSE IF sigValid THEN [ validated |-> "valid", trust |-> "unknown" ]
             ELSE [ validated |-> "invalid", trust |-> "unknown" ]
        ELSE IF IsSome(manifestStore.validation_status)
        THEN [ validated |-> IF hasSignatureFailure(manifestStore.validation_status[1])
                             THEN "invalid" ELSE "valid",
               trust |-> IF hasUntrusted(manifestStore.validation_status[1])
                         THEN "untrusted" ELSE "unknown" ]
        ELSE [ validated |-> "unknown", trust |-> "unknown" ]

\* [...new Set(xs)]: the first occurrence of every entry, in order
RECURSIVE dedupe(_)
dedupe(xs) ==
    IF xs = <<>> THEN <<>>
    ELSE LET front == dedupe(SubSeq(xs, 1, Len(xs) - 1))
             last == xs[Len(xs)]
         IN  IF \E i \in 1..Len(front) : front[i] = last THEN front ELSE Append(front, last)

\* x || '' of an optional string
orEmpty(o) == IF IsSome(o) THEN o[1] ELSE ""

\* x || undefined of an optional string
truthy(o) == IF IsSome(o) /\ o # Some("") THEN o ELSE None

\* the AI assertions one entry of data.actions contributes
actionAiAssertions(act) ==
    ( IF /\ IsSome(act.digitalSourceType)
         /\ \/ includes(act.digitalSourceType[1], "trainedAlgorithmicMedia")
            \/ includes(act.digitalSourceType[1], "algorithmicMedia")
      THEN << "digitalSourceType: " \o act.digitalSourceType[1] >> ELSE <<>> )
    \o
    ( IF /\ IsSome(act.softwareAgent) /\ IsSome(truthy(act.softwareAgent[1].name))
         /\ LET agentName == toLowerCase(act.softwareAgent[1].name[1])
            IN  \/ includes(agentName, "gpt") \/ includes(agentName, "dall")
                \/ includes(agentName, "midjourney") \/ includes(agentName, "stable")
      THEN << "softwareAgent: " \o act.softwareAgent[1].name[1] >> ELSE <<>> )

\* the loop over data.actions: << actions, aiAssertions >> it pushes
RECURSIVE scanActions(_)
scanActions(acts) ==
    IF acts = <<>> THEN << <<>>, <<>> >>
    ELSE LET act == Head(acts)
             rest == scanActions(Tail(acts))
         IN  << (IF IsSome(truthy(act.action)) THEN << act.action[1] >> ELSE <<>>) \o rest[1],
                actionAiAssertions(act) \o rest[2] >>

\* the loop over activeManifest.assertions: << actions, aiAssertions >>
RECURSIVE scanAssertions(_)
scanAssertions(assertions) ==
    IF assertions = <<>> THEN << <<>>, <<>> >>
    ELSE LET assertion == Head(assertions)
             label == toLowerCase(orEmpty(assertion.label))
             own == IF \/ includes(label, "ai") \/ includes(label, "generated")
                       \/ includes(label, "synthetic")
                       \/ includes(label, "c2pa.training-mining")
                    THEN << assertion.label[1] >> ELSE <<>>
             inner == IF /\ includes(label, "action") /\ IsSome(assertion.data)
                         /\ IsSome(assertion.data[1].actions)
                      THEN scanActions(assertion.data[1].actions[1])
                      ELSE << <<>>, <<>> >>
             rest == scanAssertions(Tail(assertions))
         IN  << inner[1] \o rest[1], own \o inner[2] \o rest[2] >>

NoSummary ==
    [ claimGenerator |-> None, issuer |-> None, certificate |-> None,
      actions |-> None, aiAssertions |-> None, ingredients |-> None ]

\* the summary analyzeC2PA builds from the (optional) active manifest
buildSummary(activeManifest) ==
    IF ~IsSome(activeManifest) THEN NoSummary
    ELSE LET m == activeManifest[1]
             info == m.claim_generator_info
             sig == m.signature_info
             scanned == IF IsSome(m.assertions) THEN scanAssertions(m.assertions[1])
                        ELSE << <<>>, <<>> >>
         IN  [ claimGenerator |->
                   IF IsSome(truthy(m.claim_generator)) THEN m.claim_generator
                   ELSE IF IsSome(info) /\ Len(info[1]) > 0
                   THEN IF IsSome(truthy(info[1][1].version))
                        THEN Some(info[1][1].name \o "/" \o info[1][1].version[1])
                        ELSE Some(info[1][1].name)
                   ELSE None,
               issuer |-> IF IsSome(sig) THEN truthy(sig[1].issuer) ELSE None,
               certificate |->
                   IF /\ IsSome(sig)
                      /\ IsSome(truthy(sig[1].common_name)) \/ IsSome(truthy(sig[1].issuer))
                   THEN Some([ subject |-> truthy(sig[1].common_name),
                               issuer |-> truthy(sig[1].issuer) ])
                   ELSE None,
               actions |-> IF Len(scanned[1]) > 0 THEN Some(dedupe(scanned[1])) ELSE None,
               aiAssertions |-> IF Len(scanned[2]) > 0 THEN Some(dedupe(scanned[2])) ELSE None,
               ingredients |->
                   IF IsSome(m.ingredients) /\ Len(m.ingredients[1]) > 0
                   THEN Some([ i \in 1..Min(5, Len(m.ingredients[1])) |->
                                  IF IsSome(truthy(m.ingredients[1][i]))
                                  THEN m.ingredients[1][i][1]
                                  ELSE "Unknown ingredient" ])
                   ELSE None ]

\* the reader errors that mean "no C2PA data"
NoManifestMarkers ==
    { "no manifest", "not found", "jumbf", "no c2pa", "unsupported", "no embedded" }

NoManifestResult ==
    [ available |-> TRUE, present |-> FALSE, validated |-> "unknown",
      trust |-> "unknown", summary |-> None, errors |-> <<>> ]

\* a result with present=false that drops the error
absentResult_errorDropped(available, error) ==
    [ available |-> available, present |-> FALSE, validated |-> "unknown",
      trust |-> "unknown", summary |-> None, errors |-> <<>> ]

\* a failure result that claims a manifest
absentResult_manifestPresent(available, error) ==
    [ available |-> available, present |-> TRUE, validated |-> "unknown",
      trust |-> "unknown", summary |-> None, errors |-> << error >> ]

\* a result with present=false and one error
absentResult(available, error) ==
    [ available |-> available, present |-> FALSE, validated |-> "unknown",
      trust |-> "unknown", summary |-> None, errors |-> << error >> ]

\* analyzeC2PA with the no-manifest markers compared without toLowerCase
analyzeC2PA_caseSensitiveMarkers(in) ==
    IF in.init # "ok"
    THEN absentResult(FALSE, IF in.initError # "" THEN in.initError
                             ELSE "C2PA initialization failed")
    ELSE IF in.reader = "throws"
    THEN IF \E marker \in NoManifestMarkers : includes(in.readError, marker)
         THEN NoManifestResult
         ELSE absentResult(TRUE, "C2PA error: " \o in.readError)
    ELSE IF in.reader = "null" THEN NoManifestResult
    ELSE IF in.reader = "storeThrows"
    THEN absentResult(TRUE, "C2PA error: " \o in.readError)
    ELSE LET class == classifyValidation(in.manifestStore)
         IN  [ available |-> TRUE, present |-> TRUE,
               validated |-> class.validated, trust |-> class.trust,
               summary |-> Some(buildSummary(in.activeManifest)),
               errors |-> <<>> ]

\* analyzeC2PA(imageBytes, mimeType) of the offscreen document
analyzeC2PA(in) ==
    IF in.init # "ok"
    THEN absentResult(FALSE, IF in.initError # "" THEN in.initError
                             ELSE "C2PA initialization failed")
    ELSE IF in.reader = "throws"
    THEN IF \E marker \in NoManifestMarkers : includes(toLowerCase(in.readError), marker)
         THEN NoManifestResult
         ELSE absentResult(TRUE, "C2PA error: " \o in.readError)
    ELSE IF in.reader = "null" THEN NoManifestResult
    ELSE IF in.reader = "storeThrows"
    THEN absentResult(TRUE, "C2PA error: " \o in.readError)
    ELSE LET class == classifyValidation(in.manifestStore)
         IN  [ available |-> TRUE, present |-> TRUE,
               validated |-> class.validated, trust |-> class.trust,
               summary |-> Some(buildSummary(in.activeManifest)),
               errors |-> <<>> ]

-----------------------------------------------------------------------------
(* The AnalysisSignals values enumerated for the fusion engine *)

ClaimGenerators == { None, Some("Adobe Photoshop 25.0"), Some("ChatGPT") }

\* issuer and certificate of a summary
SignerInfos ==
    { [ issuer |-> None, certificate |-> None ],
      [ issuer |-> Some("OpenAI"),
        certificate |-> Some([ subject |-> None, issuer |-> Some("OpenAI") ]) ],
      [ issuer |-> Some("Adobe Inc."),
        certificate |-> Some([ subject |-> Some("Google Gemini"),
                               issuer |-> Some("Adobe Inc.") ]) ],
      [ issuer |-> None,
        certificate |-> Some([ subject |-> Some("Truepic"),
                               issuer |-> Some("Midjourney CA") ]) ] }

ActionLists == { None, Some(<< "c2pa.opened", "c2pa.created" >>) }

AiAssertionLists ==
    { None, Some(<<>>), Some(<< "c2pa.ai_generated", "softwareAgent: DALL-E" >>) }

Summaries ==
    { None } \cup
    { Some([ claimGenerator |-> cg, issuer |-> si.issuer,
             certificate |-> si.certificate, actions |-> act,
             aiAssertions |-> ai, ingredients |-> None ]) :
        cg \in ClaimGenerators, si \in SignerInfos,
        act \in ActionLists, ai \in AiAssertionLists }

ValidationOutcomes ==
    { << "valid", "trusted" >>, << "invalid", "unknown" >>, << "unknown", "unknown" >> }

C2PASignals ==
    { [ available |-> TRUE, present |-> TRUE, validated |-> vt[1], trust |-> vt[2],
        summary |-> su, errors |-> <<>> ] :
        vt \in ValidationOutcomes, su \in Summaries }
    \cup
    { [ available |-> TRUE, present |-> FALSE, validated |-> "unknown",
        trust |-> "unknown", summary |-> None, errors |-> <<>> ],
      [ available |-> FALSE, present |-> FALSE, validated |-> "unknown",
        trust |-> "unknown", summary |-> None,
        errors |-> << "C2PA initialization failed" >> ],
      [ available |-> TRUE, present |-> FALSE, validated |-> "valid",
        trust |-> "unknown",
        summary |-> Some([ claimGenerator |-> Some("ChatGPT"), issuer |-> Some("OpenAI"),
                           certificate |-> None, actions |-> None,
                           aiAssertions |-> Some(<< "c2pa.ai_generated" >>),
                           ingredients |-> None ]),
        errors |-> <<>> ] }

\* an aiIndicators list of n entries
indicatorList(prefix, n) == [ i \in 1..n |-> prefix \o ToString(i) ]

\* software and creatorTool of a metadata result
SoftwareFields ==
    { << Some("GIMP 2.10"), None >>, << Some("Midjourney v6"), None >>,
      << Some("Adobe Photoshop"), Some("DALL-E 3") >> }

MetadataSignals ==
    { [ found |-> FALSE, software |-> None, creatorTool |-> None,
        aiIndicators |-> <<>> ] }
    \cup
    { [ found |-> TRUE, software |-> sw[1], creatorTool |-> sw[2],
        aiIndicators |-> <<>> ] : sw \in SoftwareFields }
    \cup
    { [ found |-> TRUE, software |-> None, creatorTool |-> None,
        aiIndicators |-> indicatorList("xmp-indicator-", n) ] : n \in 1..MaxIndicators }

TitleChunk == [ key |-> "Title", value |-> "Holiday", truncated |-> FALSE ]
ParametersChunk == [ key |-> "Parameters", value |-> "a cat. Steps: 20", truncated |-> FALSE ]
PromptChunk == [ key |-> "parameters", value |-> "a cat", truncated |-> FALSE ]

PngTextSignals ==
    { [ found |-> FALSE, chunks |-> <<>>, aiIndicators |-> <<>> ],
      [ found |-> TRUE, chunks |-> << TitleChunk >>, aiIndicators |-> <<>> ],
      [ found |-> TRUE, chunks |-> << TitleChunk, PromptChunk >>,
        aiIndicators |-> << "PNG key: parameters" >> ] }
    \cup
    { [ found |-> TRUE, chunks |-> << ParametersChunk >>,
        aiIndicators |-> indicatorList("png-indicator-", n) ] : n \in 0..MaxIndicators }

AnalysisSignals ==
    [ c2pa : C2PASignals, metadata : MetadataSignals, pngText : PngTextSignals ]

\* Math.random() draws
RandomValues == { "r1", "r2" }

SrcUrl == "https://example.test/image.png"

-----------------------------------------------------------------------------
(* SpecFusion: createReport applied to every enumerated AnalysisSignals,  *)
(* repeatedly, while the clock advances                                    *)

InitFusion ==
    /\ signals \in AnalysisSignals
    /\ now = 0
    /\ runs = 0
    /\ report = None
    /\ c2paInput = None /\ c2paResult = None
    /\ job = None /\ promises = None /\ caught = None
    /\ ModuleLoaded /\ initTask = None /\ requests = None
    /\ locator = None /\ acq = None
    /\ inline = None /\ decoded = None /\ handler = None /\ browser = None
    /\ pngData = None /\ pngResults = None /\ walk = None
    /\ creatingOffscreenDocument = None /\ offscreenDocument = None /\ ensureCalls = None

\* the first call of createReport(url, signals)
CreateReport ==
    /\ runs = 0
    /\ \E rnd \in RandomValues :
          report' = Some(createReport(SrcUrl, signals, now, rnd))
    /\ runs' = 1
    /\ UNCHANGED <<signals, now, c2paVars, pipelineVars, offscreenVars, acquireVars, dataUrlVars, handlerVars, pngVars, ensureVars>>

NextFusion == CreateReport

SpecFusion == InitFusion /\ [][NextFusion]_vars

-----------------------------------------------------------------------------
(* SpecRepeat: createReport called again and again on the same signals,   *)
(* at later times and with other random draws                              *)

RepeatSignals ==
    { s \in AnalysisSignals :
        /\ s.c2pa.validated # "invalid"
        /\ Len(s.metadata.aiIndicators) <= 1 /\ ~IsSome(s.metadata.creatorTool)
        /\ Len(s.pngText.aiIndicators) <= 1 /\ Len(s.pngText.chunks) <= 1 }

InitRepeat ==
    /\ signals \in RepeatSignals
    /\ now = 0
    /\ runs = 0
    /\ report = None
    /\ c2paInput = None /\ c2paResult = None
    /\ job = None /\ promises = None /\ caught = None
    /\ ModuleLoaded /\ initTask = None /\ requests = None
    /\ locator = None /\ acq = None
    /\ inline = None /\ decoded = None /\ handler = None /\ browser = None
    /\ pngData = None /\ pngResults = None /\ walk = None
    /\ creatingOffscreenDocument = None /\ offscreenDocument = None /\ ensureCalls = None

\* a later call of createReport(url, signals), the clock having advanced or not
CreateReportAgain ==
    /\ 0 < runs /\ runs < MaxRuns
    /\ \E t \in now..MaxClock, rnd \in RandomValues :
          /\ now' = t
          /\ report' = Some(createReport(SrcUrl, signals, t, rnd))
    /\ runs' = runs + 1
    /\ UNCHANGED <<signals, c2paVars, pipelineVars, offscreenVars, acquireVars, dataUrlVars, handlerVars, pngVars, ensureVars>>

NextRepeat == CreateReport \/ CreateReportAgain

SpecRepeat == InitRepeat /\ [][NextRepeat]_vars

-----------------------------------------------------------------------------
(* SpecC2PA: the offscreen analyzeC2PA applied to every enumerated outcome *)
(* of the c2pa-web library                                                 *)

ValidationStates ==
    { None, Some("Trusted"), Some("Valid"), Some("Invalid"), Some("Unrecognized") }

\* validation_results.activeManifest.success: optional lists of optional codes
SuccessLists ==
    { None, Some(<<>>),
      Some(<< Some("claimSignature.validated") >>),
      Some(<< Some("signingCredential.trusted"), Some("claimSignature.insideValidity") >>),
      Some(<< Some("signingCredential.trusted"), None >>) }

\* validation_results.activeManifest.failure
FailureLists ==
    { None, Some(<<>>),
      Some(<< Some("signingCredential.untrusted") >>),
      Some(<< Some("signingCredential.untrusted"), Some("assertion.dataHash.mismatch") >>),
      Some(<< Some("claimSignature.mismatch") >>),
      Some(<< Some("signingCredential.untrusted"), None >>) }

ValidationResults ==
    { None, Some([ activeManifest |-> None ]) } \cup
    { Some([ activeManifest |-> Some([ success |-> su, failure |-> fa ]) ]) :
        su \in SuccessLists, fa \in FailureLists }

\* manifestStore.validation_status
StatusLists ==
    { None, Some(<<>>),
      Some(<< Some("signingCredential.untrusted") >>),
      Some(<< Some("claimSignature.Invalid"), None >>) }

ManifestStores ==
    [ validation_state : ValidationStates,
      validation_results : ValidationResults,
      validation_status : StatusLists ]

NoAction == [ action |-> None, digitalSourceType |-> None, softwareAgent |-> None ]

\* a manifest of a camera: no generative tool anywhere
CameraManifest ==
    [ claim_generator |-> Some("Truepic Lens 1.2"),
      claim_generator_info |-> None,
      signature_info |-> Some([ issuer |-> Some("Truepic"), common_name |-> Some("Lens CLI") ]),
      assertions |-> Some(<<
          [ label |-> Some("c2pa.actions"),
            data |-> Some([ actions |-> Some(<<
                [ NoAction EXCEPT !.action = Some("c2pa.opened") ],
                [ NoAction EXCEPT !.action = Some("c2pa.opened"),
                                  !.softwareAgent = Some([ name |-> Some("Lens") ]) ] >>) ]) ],
          [ label |-> Some("c2pa.hash.data"), data |-> None ] >>),
      ingredients |-> Some(<< Some("original.jpg"), None >>) ]

\* a manifest written by a generative tool
GeneratedManifest ==
    [ claim_generator |-> None,
      claim_generator_info |-> Some(<< [ name |-> "ChatGPT", version |-> Some("4o") ] >>),
      signature_info |-> Some([ issuer |-> Some("OpenAI"), common_name |-> None ]),
      assertions |-> Some(<<
          [ label |-> Some("c2pa.actions.v2"),
            data |-> Some([ actions |-> Some(<<
                [ action |-> Some("c2pa.created"),
                  digitalSourceType |->
                      Some("http://cv.iptc.org/newscodes/digitalsourcetype/trainedAlgorithmicMedia"),
                  softwareAgent |-> Some([ name |-> Some("GPT-4o") ]) ],
                [ NoAction EXCEPT !.action = Some("c2pa.created") ] >>) ]) ] >>),
      ingredients |-> None ]

\* a manifest of a generative tool that declares no AI assertion
ToolOnlyManifest ==
    [ claim_generator |-> Some("Adobe Firefly"),
      claim_generator_info |-> None,
      signature_info |-> None,
      assertions |-> Some(<< [ label |-> Some("c2pa.hash.data"), data |-> None ] >>),
      ingredients |-> None ]

ActiveManifests ==
    { None, Some(CameraManifest), Some(GeneratedManifest), Some(ToolOnlyManifest) }

\* a library outcome other than a readable manifest
libraryOutcome(init, reader, readError) ==
    [ init |-> init, initError |-> "C2PA initialization failed: WASM file not accessible: 404",
      reader |-> reader, readError |-> readError,
      manifestStore |-> [ validation_state |-> None, validation_results |-> None,
                          validation_status |-> None ],
      activeManifest |-> None ]

C2PAInputs ==
    { libraryOutcome("failed", "null", ""),
      libraryOutcome("ok", "null", ""),
      libraryOutcome("ok", "throws", "No manifest found in asset"),
      libraryOutcome("ok", "throws", "Out of memory"),
      libraryOutcome("ok", "storeThrows", "reader already freed") }
    \cup
    { [ libraryOutcome("ok", "reader", "") EXCEPT !.manifestStore = ms,
                                                   !.activeManifest = am ] :
        ms \in ManifestStores, am \in ActiveManifests }

InitC2PA ==
    /\ c2paInput \in C2PAInputs
    /\ c2paResult = None
    /\ signals = None
    /\ now = 0
    /\ runs = 0
    /\ report = None
    /\ job = None /\ promises = None /\ caught = None
    /\ ModuleLoaded /\ initTask = None /\ requests = None
    /\ locator = None /\ acq = None
    /\ inline = None /\ decoded = None /\ handler = None /\ browser = None
    /\ pngData = None /\ pngResults = None /\ walk = None
    /\ creatingOffscreenDocument = None /\ offscreenDocument = None /\ ensureCalls = None

\* the ANALYZE_C2PA handler of the offscreen document runs analyzeC2PA
AnalyzeC2PA ==
    /\ c2paResult = None
    /\ c2paResult' = Some(analyzeC2PA(c2paInput))
    /\ UNCHANGED <<fusionVars, now, report, c2paInput, pipelineVars, offscreenVars, acquireVars, dataUrlVars, handlerVars, pngVars, ensureVars>>

NextC2PA == AnalyzeC2PA

SpecC2PA == InitC2PA /\ [][NextC2PA]_vars

-----------------------------------------------------------------------------
(* c2pa.ts: the service-worker side of the manifest analysis *)

\* analyzeC2PA(input) of the service worker, through analyzeViaOffscreen.
\* channel is what happens on the way to the offscreen document.
analyzeViaOffscreen(channel, library) ==
    IF channel = "createFails"
    THEN absentResult(FALSE, "C2PA error: " \o "Failed to create offscreen document")
    ELSE IF channel = "sendFails"
    THEN absentResult(FALSE, "Offscreen error: " \o "Could not establish connection")
    ELSE IF channel = "noResponse"
    THEN absentResult(FALSE, "Offscreen analysis failed")
    ELSE analyzeC2PA(library)

-----------------------------------------------------------------------------
(* The images of Spec *)

\* the byte of a character (TextEncoder)
encodeChar(c) ==
    IF \E i \in 1..Len(AsciiLow) : SubSeq(AsciiLow, i, i) = c
    THEN 31 + (CHOOSE i \in 1..Len(AsciiLow) : SubSeq(AsciiLow, i, i) = c)
    ELSE 96 + (CHOOSE i \in 1..Len(AsciiHigh) : SubSeq(AsciiHigh, i, i) = c)

bytesOf(str) == [ i \in 1..Len(str) |-> encodeChar(SubSeq(str, i, i)) ]

\* four big-endian bytes of a length
uint32BE(n) ==
    << (n \div 16777216) % 256, (n \div 65536) % 256, (n \div 256) % 256, n % 256 >>

\* a chunk: length, type, payload, checksum (never verified by the parser)
pngChunk(type, payload) ==
    uint32BE(Len(payload)) \o bytesOf(type) \o payload \o << 0, 0, 0, 0 >>

textChunk(key, value) == pngChunk("tEXt", bytesOf(key) \o << 0 >> \o bytesOf(value))

IHDR == pngChunk("IHDR", << 0, 0, 0, 1, 0, 0, 0, 1, 8, 2, 0, 0, 0 >>)
IDAT == pngChunk("IDAT", << 120, 156, 99, 0, 0 >>)
IEND == pngChunk("IEND", <<>>)

\* PNG files without any text chunk
BarePng == PNG_SIGNATURE \o IHDR \o IEND
PixelPng == PNG_SIGNATURE \o IHDR \o IDAT \o IEND
TextlessPngs == { BarePng, PixelPng }

TitlePng == PNG_SIGNATURE \o IHDR \o textChunk("Title", "Holiday") \o IEND
ParametersPng ==
    PNG_SIGNATURE \o IHDR \o textChunk("parameters", "Steps: 20, Sampler: Euler") \o IEND
JpegFile == << 255, 216, 255, 224, 0, 16, 74, 70, 73, 70, 0, 1, 1, 0, 0, 1 >>

\* n copies of a string
RECURSIVE repeat(_, _)
repeat(str, n) ==
    IF n = 0 THEN ""
    ELSE IF n = 1 THEN str
    ELSE repeat(str, n \div 2) \o repeat(str, n - n \div 2)

\* a prompt of 500 characters followed by the generation settings
LateStepsValue == repeat("a cat, ", 71) \o "cat" \o "Steps: 20, Sampler: Euler"
LateStepsPng == PNG_SIGNATURE \o IHDR \o textChunk("parameters", LateStepsValue) \o IEND

\* what an image editor writes: generic keys, no generation metadata
EditorPng ==
    PNG_SIGNATURE \o IHDR \o textChunk("Software", "GIMP 2.10")
        \o textChunk("Comment", "Holiday 2019") \o IEND

Images ==
    { [ bytes |-> b, inflated |-> None ] :
        b \in TextlessPngs \cup { TitlePng, ParametersPng, EditorPng, JpegFile } }

\* the image whose chunk value is longer than the displayed length
LongImages == { [ bytes |-> LateStepsPng, inflated |-> None ] }

-----------------------------------------------------------------------------
(* Spec: runAnalysis on one image, its three analyzers running concurrently *)

Producers == { "c2pa", "metadata", "pngText" }

Pending == [ state |-> "pending", value |-> None ]
Fulfilled(v) == [ state |-> "fulfilled", value |-> Some(v) ]
Rejected(e) == [ state |-> "rejected", value |-> Some(e) ]

\* what an analyzer can throw: an Error with a message, or a value that is not
\* an Error instance (a thrown string, a plain object) with the text it carries
Exceptions(p) ==
    { [ isError |-> TRUE, message |-> p \o " analyzer failed" ],
      [ isError |-> FALSE, message |-> p \o " analyzer threw a string" ] }

\* the library outcomes met by the images of Spec
PipelineStores ==
    { ms \in ManifestStores :
        /\ ms.validation_status = None
        /\ \/ ms.validation_state = Some("Trusted") /\ ms.validation_results = None
           \/ /\ ms.validation_state = Some("Invalid")
              /\ ms.validation_results =
                     Some([ activeManifest |->
                         Some([ success |-> Some(<< Some("claimSignature.validated") >>),
                                failure |-> Some(<< Some("signingCredential.untrusted") >>) ]) ]) }

PipelineC2PAInputs ==
    { in \in C2PAInputs : in.reader = "reader" => in.manifestStore \in PipelineStores }

\* what the metadata decoder returns for the images of Spec
PipelineMetadata == { m \in MetadataSignals : Len(m.aiIndicators) <= 1 }

Jobs ==
    { [ image |-> im, library |-> lib, channel |-> "ok", metadata |-> md ] :
        im \in Images, lib \in PipelineC2PAInputs, md \in PipelineMetadata }
    \cup
    { [ image |-> im, library |-> libraryOutcome("ok", "null", ""), channel |-> ch,
        metadata |-> md ] :
        im \in Images, ch \in { "createFails", "sendFails", "noResponse" },
        md \in PipelineMetadata }
    \cup
    { [ image |-> im, library |-> libraryOutcome("ok", "null", ""), channel |-> "ok",
        metadata |-> md ] :
        im \in LongImages, md \in PipelineMetadata }

Init ==
    /\ job \in Jobs
    /\ promises = [ p \in Producers |-> Pending ]
    /\ caught = None
    /\ report = None
    /\ now = 0
    /\ signals = None /\ runs = 0
    /\ ModuleLoaded /\ initTask = None /\ requests = None
    /\ locator = None /\ acq = None
    /\ c2paInput = None /\ c2paResult = None
    /\ inline = None /\ decoded = None /\ handler = None /\ browser = None
    /\ pngData = None /\ pngResults = None /\ walk = None
    /\ creatingOffscreenDocument = None /\ offscreenDocument = None /\ ensureCalls = None

\* analyzers.analyzeC2PA(data) settles: the wrapper of background.ts and the
\* service-worker analyzeC2PA catch every failure and resolve
AnalyzeC2PAResolves ==
    /\ promises["c2pa"].state = "pending"
    /\ promises' = [ promises EXCEPT
           !["c2pa"] = Fulfilled(analyzeViaOffscreen(job.channel, job.library)) ]
    /\ UNCHANGED <<fusionVars, c2paVars, offscreenVars, now, report, job, caught, acquireVars, dataUrlVars, handlerVars, pngVars, ensureVars>>

\* analyzers.analyzeMetadata(data) resolves with the decoder's result
AnalyzeMetadataResolves ==
    /\ promises["metadata"].state = "pending"
    /\ promises' = [ promises EXCEPT !["metadata"] = Fulfilled(job.metadata) ]
    /\ UNCHANGED <<fusionVars, c2paVars, offscreenVars, now, report, job, caught, acquireVars, dataUrlVars, handlerVars, pngVars, ensureVars>>

\* analyzers.analyzePngText(data) resolves
AnalyzePngTextResolves ==
    /\ promises["pngText"].state = "pending"
    /\ promises' = [ promises EXCEPT
           !["pngText"] = Fulfilled(analyzePngText(job.image.bytes, job.image.inflated)) ]
    /\ UNCHANGED <<fusionVars, c2paVars, offscreenVars, now, report, job, caught, acquireVars, dataUrlVars, handlerVars, pngVars, ensureVars>>

\* an analyzer handed to runAnalysis throws; Promise.all rejects with the
\* first rejection and the await passes it to the catch block
AnalyzerRejects(p) ==
    /\ promises[p].state = "pending"
    /\ \E e \in Exceptions(p) :
          /\ promises' = [ promises EXCEPT ![p] = Rejected(e) ]
          /\ caught' = IF caught = None THEN Some(e) ELSE caught
    /\ UNCHANGED <<fusionVars, c2paVars, offscreenVars, now, report, job, acquireVars, dataUrlVars, handlerVars, pngVars, ensureVars>>

\* the signals runAnalysis builds from the three results
builtSignals ==
    [ c2pa |-> promises["c2pa"].value[1],
      metadata |-> promises["metadata"].value[1],
      pngText |-> promises["pngText"].value[1] ]

\* runAnalysis not waiting for the chunk parser: the report is built once the
\* other two analyzers are done, with an empty chunk result if need be
RunAnalysisReturns_withoutPngText ==
    /\ report = None
    /\ promises["c2pa"].state = "fulfilled" /\ promises["metadata"].state = "fulfilled"
    /\ \E rnd \in RandomValues :
          report' = Some(createReport(SrcUrl,
                            [ c2pa |-> promises["c2pa"].value[1],
                              metadata |-> promises["metadata"].value[1],
                              pngText |-> IF promises["pngText"].state = "fulfilled"
                                          THEN promises["pngText"].value[1]
                                          ELSE NoPngText ],
                            now, rnd))
    /\ UNCHANGED <<fusionVars, c2paVars, now, pipelineVars, offscreenVars, acquireVars, dataUrlVars, handlerVars, pngVars, ensureVars>>

\* Promise.all fulfilled: runAnalysis returns createReport(url, signals)
RunAnalysisReturns ==
    /\ report = None
    /\ \A p \in Producers : promises[p].state = "fulfilled"
    /\ \E rnd \in RandomValues :
          report' = Some(createReport(SrcUrl, builtSignals, now, rnd))
    /\ UNCHANGED <<fusionVars, c2paVars, now, pipelineVars, offscreenVars, acquireVars, dataUrlVars, handlerVars, pngVars, ensureVars>>

\* err instanceof Error ? err.message : 'Unknown analysis error', always the message
errorMessage_alwaysMessage(e) == e.message

\* err instanceof Error ? err.message : 'Unknown analysis error'
errorMessage(e) == IF e.isError THEN e.message ELSE "Unknown analysis error"

\* the catch block of runAnalysis returns createErrorReport(url, message)
RunAnalysisCatches ==
    /\ report = None
    /\ caught # None
    /\ \E rnd \in RandomValues :
          report' = Some(createErrorReport(SrcUrl, errorMessage(caught[1]), now, rnd))
    /\ UNCHANGED <<fusionVars, c2paVars, now, pipelineVars, offscreenVars, acquireVars, dataUrlVars, handlerVars, pngVars, ensureVars>>

Next ==
    \/ AnalyzeC2PAResolves
    \/ AnalyzeMetadataResolves
    \/ AnalyzePngTextResolves
    \/ \E p \in Producers : AnalyzerRejects(p)
    \/ RunAnalysisReturns
    \/ RunAnalysisCatches

Spec == Init /\ [][Next]_vars

-----------------------------------------------------------------------------
(* offscreen.ts: the one-time initialisation and the trust list *)

isSpace(c) == c = " " \/ c = "\t"

RECURSIVE trimStart(_)
trimStart(s) ==
    IF Len(s) > 0 /\ isSpace(SubSeq(s, 1, 1)) THEN trimStart(SubSeq(s, 2, Len(s))) ELSE s

RECURSIVE trimEnd(_)
trimEnd(s) ==
    IF Len(s) > 0 /\ isSpace(SubSeq(s, Len(s), Len(s)))
    THEN trimEnd(SubSeq(s, 1, Len(s) - 1)) ELSE s

\* String.prototype.trim
trim(s) == trimEnd(trimStart(s))

startsWith(s, p) == Len(s) >= Len(p) /\ SubSeq(s, 1, Len(p)) = p

HexDigits == "0123456789abcdef"

\* /^[a-f0-9]{64}$/.test(s)
isSha256Hex(s) ==
    /\ Len(s) = 64
    /\ \A i \in 1..Len(s) :
          \E j \in 1..Len(HexDigits) : SubSeq(s, i, i) = SubSeq(HexDigits, j, j)

\* the set built from the lines of the trust list file
parseTrustList(lines) ==
    { t \in { toLowerCase(trim(lines[i])) : i \in DOMAIN lines } :
        t # "" /\ ~startsWith(t, "#") /\ isSha256Hex(t) }

\* loadTrustList() when trustList is null: file is None when the fetch throws,
\* else the lines of the text
loadTrustList(file) == IF file = None THEN {} ELSE parseTrustList(file[1])

\* initC2PA() up to its first await, without the test of the in-flight promise
initC2PA_noInFlightCheck(instance, error, promise) ==
    IF instance # None THEN "true"
    ELSE IF error # None THEN "false"
    ELSE "start"

\* initC2PA() up to its first await: resolves true or false at once, returns
\* the in-flight promise, or starts the initialisation closure
initC2PA(instance, error, promise) ==
    IF instance # None THEN "true"
    ELSE IF error # None THEN "false"
    ELSE IF promise # None THEN "await"
    ELSE "start"

\* initError as the catch block of the closure sets it
initFailure(cause) == "C2PA initialization failed: " \o cause

-----------------------------------------------------------------------------
(* SpecOffscreen: concurrent ANALYZE_C2PA requests in one offscreen document *)

MaxRequests == 2

RequestIds == 1..MaxRequests

FingerprintA == "3b7e3b7e3b7e3b7e3b7e3b7e3b7e3b7e3b7e3b7e3b7e3b7e3b7e3b7e3b7e3b7e"
FingerprintB == "c0dec0dec0dec0dec0dec0dec0dec0dec0dec0dec0dec0dec0dec0dec0dec0de"

\* what fetch(assets/allowed.sha256.txt) gives: a throw, or the lines of the text
TrustListFiles ==
    { None,
      Some(<< "" >>),
      Some(<< "# trusted issuers", "  " \o "3B7E3B7E3B7E3B7E3B7E3B7E3B7E3B7E3B7E3B7E3B7E3B7E3B7E3B7E3B7E3B7E" \o " ", "not-a-hash", "" >>) }

TrustedStore ==
    [ validation_state |-> Some("Trusted"), validation_results |-> None,
      validation_status |-> None ]

ValidStore ==
    [ validation_state |-> Some("Valid"), validation_results |-> None,
      validation_status |-> None ]

\* the images sent to the offscreen document: what the library reads from
\* them, and the SHA-256 fingerprint of the signer's certificate
OffscreenImages ==
    { [ library |-> libraryOutcome("ok", "null", ""), signer |-> None ] }
    \cup
    { [ library |-> [ libraryOutcome("ok", "reader", "") EXCEPT
                          !.manifestStore = TrustedStore,
                          !.activeManifest = Some(CameraManifest) ],
        signer |-> Some(fp) ] : fp \in { FingerprintA, FingerprintB } }
    \cup
    { [ library |-> [ libraryOutcome("ok", "reader", "") EXCEPT
                          !.manifestStore = ValidStore,
                          !.activeManifest = Some(CameraManifest) ],
        signer |-> Some(FingerprintB) ] }

IdleRequest ==
    [ pc |-> "idle", order |-> 0, via |-> "", image |-> None,
      initialized |-> "", result |-> None ]

InitOffscreen ==
    /\ ModuleLoaded
    /\ initTask = [ step |-> "none", starts |-> 0, createCalls |-> 0,
                    initializer |-> 0, calls |-> 0 ]
    /\ requests = [ r \in RequestIds |-> IdleRequest ]
    /\ signals = None /\ now = 0 /\ runs = 0 /\ report = None
    /\ c2paInput = None /\ c2paResult = None
    /\ job = None /\ promises = None /\ caught = None
    /\ locator = None /\ acq = None
    /\ inline = None /\ decoded = None /\ handler = None /\ browser = None
    /\ pngData = None /\ pngResults = None /\ walk = None
    /\ creatingOffscreenDocument = None /\ offscreenDocument = None /\ ensureCalls = None

\* the listener receives ANALYZE_C2PA and analyzeC2PA runs to await initC2PA()
ReceiveAnalyzeC2PA(r) ==
    /\ requests[r].pc = "idle"
    /\ \E image \in OffscreenImages :
          LET how == initC2PA(c2paInstance, initError, initPromise)
          IN  /\ requests' = [ requests EXCEPT ![r] =
                     [ pc |-> IF how \in { "true", "false" } THEN "resume" ELSE "awaitInit",
                       order |-> initTask.calls + 1,
                       via |-> how,
                       image |-> Some(image),
                       initialized |-> IF how \in { "true", "false" } THEN how ELSE "",
                       result |-> None ] ]
              /\ IF how = "start"
                 THEN /\ initPromise' = Some("pending")
                      /\ initTask' = [ initTask EXCEPT !.step = "fetchWasm",
                                                       !.starts = @ + 1,
                                                       !.initializer = r,
                                                       !.calls = @ + 1 ]
                 ELSE /\ initPromise' = initPromise
                      /\ initTask' = [ initTask EXCEPT !.calls = @ + 1 ]
    /\ UNCHANGED <<fusionVars, c2paVars, pipelineVars, now, report,
                   c2paInstance, trustList, initError, acquireVars, dataUrlVars, handlerVars, pngVars, ensureVars>>

\* the closure's catch block: initError is set and the promise resolves false
initFails(cause) ==
    /\ initError' = Some(initFailure(cause))
    /\ initPromise' = Some("false")
    /\ initTask' = [ initTask EXCEPT !.step = "done" ]
    /\ UNCHANGED <<c2paInstance, trustList>>

\* await fetch(wasmUrl) settles; when it is ok, createC2pa is called
WasmFetched ==
    /\ initTask.step = "fetchWasm"
    /\ \/ /\ initTask' = [ initTask EXCEPT !.step = "createC2pa", !.createCalls = @ + 1 ]
          /\ UNCHANGED <<c2paInstance, trustList, initPromise, initError>>
       \/ initFails("WASM file not accessible: 404")
       \/ initFails("Failed to fetch")
    /\ UNCHANGED <<fusionVars, c2paVars, pipelineVars, now, report, requests, acquireVars, dataUrlVars, handlerVars, pngVars, ensureVars>>

\* await createC2pa(...) settles; on success loadTrustList is called
C2paCreated ==
    /\ initTask.step = "createC2pa"
    /\ \/ /\ c2paInstance' = Some("c2pa")
          /\ initTask' = [ initTask EXCEPT !.step = "loadTrustList" ]
          /\ UNCHANGED <<trustList, initPromise, initError>>
       \/ initFails("WebAssembly.instantiate(): out of memory")
    /\ UNCHANGED <<fusionVars, c2paVars, pipelineVars, now, report, requests, acquireVars, dataUrlVars, handlerVars, pngVars, ensureVars>>

\* await loadTrustList() settles and the closure returns true
TrustListLoaded ==
    /\ initTask.step = "loadTrustList"
    /\ \E file \in TrustListFiles :
          trustList' = IF trustList # None THEN trustList ELSE Some(loadTrustList(file))
    /\ initPromise' = Some("true")
    /\ initTask' = [ initTask EXCEPT !.step = "done" ]
    /\ UNCHANGED <<fusionVars, c2paVars, pipelineVars, now, report,
                   c2paInstance, initError, requests, acquireVars, dataUrlVars, handlerVars, pngVars, ensureVars>>

\* what the rest of analyzeC2PA meets: the library outcome of the image, with
\* the outcome of the initialisation as this request saw it
libraryAsSeen(image, initialized) ==
    [ image.library EXCEPT
        !.init = IF initialized = "true" /\ c2paInstance # None THEN "ok" ELSE "failed",
        !.initError = IF initError = None THEN "" ELSE initError[1] ]

\* await initC2PA() resumes and analyzeC2PA runs to its return
AnalyzeC2PAResumes(r) ==
    /\ \/ requests[r].pc = "resume"
       \/ requests[r].pc = "awaitInit" /\ initPromise \in { Some("true"), Some("false") }
    /\ LET initialized == IF requests[r].pc = "resume" THEN requests[r].initialized
                          ELSE initPromise[1]
       IN  requests' = [ requests EXCEPT ![r] =
               [ @ EXCEPT !.pc = "done", !.initialized = initialized,
                          !.result = Some(analyzeC2PA(
                                         libraryAsSeen(requests[r].image[1], initialized))) ] ]
    /\ UNCHANGED <<fusionVars, c2paVars, pipelineVars, now, report,
                   c2paInstance, trustList, initPromise, initError, initTask, acquireVars, dataUrlVars, handlerVars, pngVars, ensureVars>>

NextOffscreen ==
    \/ \E r \in RequestIds : ReceiveAnalyzeC2PA(r)
    \/ WasmFetched
    \/ C2paCreated
    \/ TrustListLoaded
    \/ \E r \in RequestIds : AnalyzeC2PAResumes(r)

SpecOffscreen == InitOffscreen /\ [][NextOffscreen]_vars

-----------------------------------------------------------------------------
(* imageBytes.ts: retrieval of the image bytes *)

MAX_IMAGE_SIZE == 25 * 1024 * 1024

\* xhr.timeout of tryXHR, in milliseconds
XHR_TIMEOUT == 30000

\* the strategies of fetchImageInPage, by the method name each one reports
PageMethods ==
    << "fetch-no-creds", "xhr-no-creds", "fetch-with-creds", "xhr-with-creds",
       "canvas-METADATA-LOST" >>

\* the chain of fetchImageInPage without the tests of arrayBuffer
nextMethod_ignoresSuccess(attempts) ==
    IF Len(attempts) < Len(PageMethods) THEN PageMethods[Len(attempts) + 1] ELSE ""

\* the strategy fetchImageInPage tries after the attempts made so far, "" when
\* the chain has ended: each step runs only while arrayBuffer is null
nextMethod(attempts) ==
    IF attempts # <<>> /\ attempts[Len(attempts)].ok THEN ""
    ELSE IF Len(attempts) < Len(PageMethods) THEN PageMethods[Len(attempts) + 1]
    ELSE ""

tooLarge(what, n) ==
    what \o " too large: " \o ToString(n) \o " bytes (max " \o ToString(MAX_IMAGE_SIZE) \o ")"

\* what fetchImageInPage returns without its test of byteLength
fetchImageInPage_noSizeCheck(arrayBuffer, method, maxSize) ==
    IF arrayBuffer = None
    THEN [ success |-> FALSE,
           error |-> "Could not fetch image bytes. The site may have strict security policies." ]
    ELSE [ success |-> TRUE, data |-> arrayBuffer[1], method |-> method ]

\* what fetchImageInPage returns once its chain has ended; a buffer is
\* modelled by its byteLength
fetchImageInPage(arrayBuffer, method, maxSize) ==
    IF arrayBuffer = None
    THEN [ success |-> FALSE,
           error |-> "Could not fetch image bytes. The site may have strict security policies." ]
    ELSE IF arrayBuffer[1] > maxSize
    THEN [ success |-> FALSE,
           error |-> "Image too large: " \o ToString(arrayBuffer[1]) \o " bytes (max "
                     \o ToString(maxSize) \o ")" ]
    ELSE [ success |-> TRUE, data |-> arrayBuffer[1], method |-> method ]

\* what fetchFileInIsolatedWorld returns for the buffer its XHR and fetch gave
fetchFileInIsolatedWorld(buffer, maxSize) ==
    IF buffer = None
    THEN [ success |-> FALSE, error |-> "Could not fetch file in isolated world" ]
    ELSE IF buffer[1] > maxSize
    THEN [ success |-> FALSE,
           error |-> "File too large: " \o ToString(buffer[1]) \o " bytes" ]
    ELSE [ success |-> TRUE, data |-> buffer[1] ]

\* fetchHttpImageDirect after response.ok: the buffer it returns, or the
\* error it throws
fetchHttpImageDirect(contentLength, byteLength) ==
    IF contentLength # None /\ contentLength[1] > MAX_IMAGE_SIZE
    THEN [ success |-> FALSE, error |-> tooLarge("Image", contentLength[1]) ]
    ELSE IF byteLength > MAX_IMAGE_SIZE
    THEN [ success |-> FALSE, error |-> tooLarge("Image", byteLength) ]
    ELSE [ success |-> TRUE, data |-> byteLength ]

-----------------------------------------------------------------------------
(* SpecAcquire: one call of getImageBytes *)

ByteLengths == { 1024, MAX_IMAGE_SIZE, MAX_IMAGE_SIZE + 1 }

DataUrls == { "data:image/png;base64,iVBORw0KGgo=", "data:image/png;base64" }
FileUrls == { "file:///home/user/picture.png" }
BlobUrls == { "blob:https://example.com/0b5c1d" }
HttpUrls == { "https://cdn.example.com/a.png", "http://example.com/a.png" }
OtherUrls == { "", "ftp://example.com/a.png" }

\* url: the image URL; permission: what chrome.permissions.contains answers;
\* byteLength: the size of the resource; contentLength: the declared length;
\* rasterLength: the size of the PNG a canvas would encode
Locators ==
    { [ url |-> u, permission |-> FALSE, byteLength |-> 1024, contentLength |-> None,
        rasterLength |-> 1024 ] : u \in OtherUrls }
    \cup
    { [ url |-> u, permission |-> FALSE, byteLength |-> n, contentLength |-> None,
        rasterLength |-> 1024 ] : u \in DataUrls, n \in ByteLengths }
    \cup
    { [ url |-> u, permission |-> FALSE, byteLength |-> n, contentLength |-> None,
        rasterLength |-> m ] : u \in FileUrls \cup BlobUrls, n \in ByteLengths,
                               m \in ByteLengths }
    \cup
    { [ url |-> u, permission |-> p, byteLength |-> n, contentLength |-> c,
        rasterLength |-> m ] :
        u \in HttpUrls, p \in BOOLEAN, n \in ByteLengths,
        c \in { None, Some(1024), Some(MAX_IMAGE_SIZE + 1) },
        m \in { 1024, MAX_IMAGE_SIZE + 1 } }

InitAcquire ==
    /\ locator \in Locators
    /\ acq = [ pc |-> "called", tried |-> <<>>, swallowed |-> <<>>,
               attempts |-> <<>>, arrayBuffer |-> None, inPage |-> None,
               awaiting |-> None, returned |-> None, thrown |-> None ]
    /\ signals = None /\ now = 0 /\ runs = 0 /\ report = None
    /\ c2paInput = None /\ c2paResult = None
    /\ job = None /\ promises = None /\ caught = None
    /\ ModuleLoaded /\ initTask = None /\ requests = None
    /\ inline = None /\ decoded = None /\ handler = None /\ browser = None
    /\ pngData = None /\ pngResults = None /\ walk = None
    /\ creatingOffscreenDocument = None /\ offscreenDocument = None /\ ensureCalls = None

\* getImageBytes returns a buffer
returns(a, byteLength) == [ a EXCEPT !.pc = "returned", !.returned = Some([ byteLength |-> byteLength ]) ]

\* getImageBytes rejects with an Error
throws(a, message) == [ a EXCEPT !.pc = "thrown", !.thrown = Some(message) ]

\* a catch block of getImageBytes logs the error and the next method follows
catches(a, message, next) == [ a EXCEPT !.pc = next, !.swallowed = Append(@, message) ]

\* the promise getImageBytes awaits never settles: nothing answers and no
\* timer is armed for it, so the call stays where it is
pends(a, what) == [ a EXCEPT !.pc = "pending", !.awaiting = Some(what) ]

\* the method getImageBytes turns to first without the file:// branch
firstMethod_fileAsRemote(url, permission) ==
    IF startsWith(url, "blob:") \/ startsWith(url, "file://") THEN "page"
    ELSE IF startsWith(url, "http://") \/ startsWith(url, "https://")
    THEN IF permission THEN "direct" ELSE "page"
    ELSE ""

\* the method getImageBytes turns to first for a URL that is neither empty nor
\* a data: URL, "" for an unsupported scheme
firstMethod(url, permission) ==
    IF startsWith(url, "file://") THEN "isolated"
    ELSE IF startsWith(url, "blob:") THEN "page"
    ELSE IF startsWith(url, "http://") \/ startsWith(url, "https://")
    THEN IF permission THEN "direct" ELSE "page"
    ELSE ""

\* getImageBytes up to its first await: the dispatch on the URL scheme, with
\* the data: branch, which awaits nothing
GetImageBytes ==
    /\ acq.pc = "called"
    /\ acq' =
         IF locator.url = "" THEN throws(acq, "No image URL provided")
         ELSE IF startsWith(locator.url, "data:")
         THEN IF ~includes(locator.url, ",") THEN throws(acq, "Invalid data URL format")
              ELSE IF locator.byteLength > MAX_IMAGE_SIZE
              THEN throws(acq, tooLarge("Image", locator.byteLength))
              ELSE returns(acq, locator.byteLength)
         ELSE IF firstMethod(locator.url, locator.permission) # ""
         THEN [ acq EXCEPT !.pc = firstMethod(locator.url, locator.permission) ]
         ELSE throws(acq, "Unsupported URL scheme: " \o SubSeq(locator.url, 1, Min(30, Len(locator.url))) \o "...")
    /\ UNCHANGED <<fusionVars, c2paVars, pipelineVars, offscreenVars, now, report, locator, dataUrlVars, handlerVars, pngVars, ensureVars>>

\* file:// method 1: fetchFileInIsolated settles, or never does: the XHR of
\* fetchFileInIsolatedWorld has a timeout, the fetch that follows it has none
FetchFileInIsolated ==
    /\ acq.pc = "isolated"
    /\ \E outcome \in { "scriptThrows", "noBuffer", "buffer", "noResponse" } :
          LET a == [ acq EXCEPT !.tried = Append(@, "isolated") ]
              result == fetchFileInIsolatedWorld(
                            IF outcome = "buffer" THEN Some(locator.byteLength) ELSE None,
                            MAX_IMAGE_SIZE)
          IN  acq' = IF outcome = "noResponse" THEN pends(a, "fetch in the isolated world")
                     ELSE IF outcome = "scriptThrows"
                     THEN catches(a, "Cannot access contents of the page", "offscreen")
                     ELSE IF result.success THEN returns(a, result.data)
                     ELSE catches(a, result.error, "offscreen")
    /\ UNCHANGED <<fusionVars, c2paVars, pipelineVars, offscreenVars, now, report, locator, dataUrlVars, handlerVars, pngVars, ensureVars>>

\* file:// method 2: fetchFileViaOffscreen settles, then the size test; the
\* sendMessage it awaits has no timeout
FetchFileViaOffscreen ==
    /\ acq.pc = "offscreen"
    /\ \E outcome \in { "documentFails", "fetchFails", "data", "noResponse" } :
          LET a == [ acq EXCEPT !.tried = Append(@, "offscreen") ]
          IN  acq' = IF outcome = "noResponse" THEN pends(a, "runtime.sendMessage")
                     ELSE IF outcome = "documentFails"
                     THEN catches(a, "Failed to create offscreen document", "page")
                     ELSE IF outcome = "fetchFails"
                     THEN catches(a, "XHR network error", "page")
                     ELSE IF locator.byteLength > MAX_IMAGE_SIZE
                     THEN catches(a, tooLarge("Image", locator.byteLength), "page")
                     ELSE returns(a, locator.byteLength)
    /\ UNCHANGED <<fusionVars, c2paVars, pipelineVars, offscreenVars, now, report, locator, dataUrlVars, handlerVars, pngVars, ensureVars>>

\* http(s) with host permission: fetchHttpImageDirect settles; its fetch has
\* no timeout
FetchHttpImageDirect ==
    /\ acq.pc = "direct"
    /\ \E outcome \in { "networkError", "notOk", "ok", "noResponse" } :
          LET a == [ acq EXCEPT !.tried = Append(@, "direct") ]
              result == fetchHttpImageDirect(locator.contentLength, locator.byteLength)
          IN  acq' = IF outcome = "noResponse" THEN pends(a, "fetch in the service worker")
                     ELSE IF outcome = "networkError" THEN catches(a, "Failed to fetch", "page")
                     ELSE IF outcome = "notOk"
                     THEN catches(a, "HTTP error: 404 Not Found", "page")
                     ELSE IF result.success THEN returns(a, result.data)
                     ELSE catches(a, result.error, "page")
    /\ UNCHANGED <<fusionVars, c2paVars, pipelineVars, offscreenVars, now, report, locator, dataUrlVars, handlerVars, pngVars, ensureVars>>

\* fetchInPageContext: chrome.scripting.executeScript of fetchImageInPage in
\* the MAIN world of the page
ExecuteScript ==
    /\ acq.pc = "page"
    /\ \E outcome \in { "injected", "throws", "noResults" } :
          LET a == [ acq EXCEPT !.tried = Append(@, "page") ]
          IN  acq' = IF outcome = "throws" THEN [ a EXCEPT !.pc = "pageIsolated" ]
                     ELSE IF outcome = "noResults"
                     THEN throws(a, "Script execution returned no results")
                     ELSE [ a EXCEPT !.pc = "inPage" ]
    /\ UNCHANGED <<fusionVars, c2paVars, pipelineVars, offscreenVars, now, report, locator, dataUrlVars, handlerVars, pngVars, ensureVars>>

\* fetchInPageContext: the MAIN world threw, the same function is injected
\* into the ISOLATED world
ExecuteScriptIsolated ==
    /\ acq.pc = "pageIsolated"
    /\ \E outcome \in { "injected", "throws", "noResults" } :
          LET a == [ acq EXCEPT !.tried = Append(@, "pageIsolated") ]
          IN  acq' = IF outcome = "throws"
                     THEN throws(a, "Cannot access page: " \o "No tab with id: 7")
                     ELSE IF outcome = "noResults"
                     THEN throws(a, "Script execution returned no results")
                     ELSE [ a EXCEPT !.pc = "inPage" ]
    /\ UNCHANGED <<fusionVars, c2paVars, pipelineVars, offscreenVars, now, report, locator, dataUrlVars, handlerVars, pngVars, ensureVars>>

\* the timeout a strategy of fetchImageInPage arms, None when it arms none:
\* tryXHR sets xhr.timeout, tryFetch and tryCanvas set nothing
attemptTimeout(method) ==
    IF method \in { "xhr-no-creds", "xhr-with-creds" } THEN Some(XHR_TIMEOUT) ELSE None

\* fetchImageInPage tries its next strategy; the canvas gives a re-encoded
\* PNG.  A request nothing answers ends as a failure when the strategy armed a
\* timeout (ontimeout resolves null), and never ends otherwise.
TryInPage ==
    /\ acq.pc = "inPage"
    /\ nextMethod(acq.attempts) # ""
    /\ \E outcome \in { "ok", "fails", "noResponse" } :
          LET method == nextMethod(acq.attempts)
              buffer == IF method = PageMethods[Len(PageMethods)]
                        THEN locator.rasterLength ELSE locator.byteLength
              ok == outcome = "ok"
          IN  acq' = IF outcome = "noResponse" /\ attemptTimeout(method) = None
                     THEN pends(acq, method)
                     ELSE [ acq EXCEPT !.attempts = Append(@, [ method |-> method, ok |-> ok,
                                                                 timedOut |-> outcome = "noResponse" ]),
                                       !.arrayBuffer = IF ok THEN Some(buffer) ELSE None ]
    /\ UNCHANGED <<fusionVars, c2paVars, pipelineVars, offscreenVars, now, report, locator, dataUrlVars, handlerVars, pngVars, ensureVars>>

\* fetchImageInPage returns and fetchInPageContext turns its result into the
\* buffer, or the error, of getImageBytes
FetchInPageContext ==
    /\ acq.pc = "inPage"
    /\ nextMethod(acq.attempts) = ""
    /\ LET method == IF acq.arrayBuffer = None THEN ""
                     ELSE acq.attempts[Len(acq.attempts)].method
           result == fetchImageInPage(acq.arrayBuffer, method, MAX_IMAGE_SIZE)
           a == [ acq EXCEPT !.inPage = Some(result) ]
       IN  acq' = IF result.success THEN returns(a, result.data)
                  ELSE throws(a, result.error)
    /\ UNCHANGED <<fusionVars, c2paVars, pipelineVars, offscreenVars, now, report, locator, dataUrlVars, handlerVars, pngVars, ensureVars>>

NextAcquire ==
    \/ GetImageBytes
    \/ FetchFileInIsolated
    \/ FetchFileViaOffscreen
    \/ FetchHttpImageDirect
    \/ ExecuteScript
    \/ ExecuteScriptIsolated
    \/ TryInPage
    \/ FetchInPageContext

SpecAcquire == InitAcquire /\ [][NextAcquire]_vars

-----------------------------------------------------------------------------
(* imageBytes.ts: data: URLs *)

Base64Alphabet == "ABCDEFGHIJKLMNOPQRSTUVWXYZabcdefghijklmnopqrstuvwxyz0123456789+/"

isBase64Char(c) == \E i \in 1..Len(Base64Alphabet) : SubSeq(Base64Alphabet, i, i) = c

\* the 6 bits a base64 character stands for
base64Value(c) == (CHOOSE i \in 1..Len(Base64Alphabet) : SubSeq(Base64Alphabet, i, i) = c) - 1

\* atob, first step: ASCII whitespace is removed
RECURSIVE removeWhitespace(_)
removeWhitespace(s) ==
    IF s = "" THEN ""
    ELSE IF SubSeq(s, 1, 1) \in { " ", "\t", "\n", "\r", "\f" }
    THEN removeWhitespace(SubSeq(s, 2, Len(s)))
    ELSE SubSeq(s, 1, 1) \o removeWhitespace(SubSeq(s, 2, Len(s)))

\* atob, second step: when the length is a multiple of 4, one or two "=" at
\* the end are removed
removePadding(s) ==
    IF Len(s) % 4 = 0 /\ Len(s) >= 2 /\ SubSeq(s, Len(s) - 1, Len(s)) = "=="
    THEN SubSeq(s, 1, Len(s) - 2)
    ELSE IF Len(s) % 4 = 0 /\ Len(s) >= 1 /\ SubSeq(s, Len(s), Len(s)) = "="
    THEN SubSeq(s, 1, Len(s) - 1)
    ELSE s

\* atob, last step: every 4 characters give 3 bytes; 2 or 3 characters left
\* over give 1 or 2 bytes, their remaining bits being discarded
RECURSIVE decodeGroups(_)
decodeGroups(s) ==
    LET v(i) == base64Value(SubSeq(s, i, i))
    IN  IF Len(s) >= 4
        THEN LET n == ((v(1) * 64 + v(2)) * 64 + v(3)) * 64 + v(4)
             IN  << n \div 65536, (n \div 256) % 256, n % 256 >>
                 \o decodeGroups(SubSeq(s, 5, Len(s)))
        ELSE IF Len(s) = 3
        THEN LET n == (v(1) * 64 + v(2)) * 64 + v(3)
             IN  << n \div 1024, (n \div 4) % 256 >>
        ELSE IF Len(s) = 2
        THEN << (v(1) * 64 + v(2)) \div 16 >>
        ELSE <<>>

\* atob: the char codes of the binary string it returns, or the exception
atob(data) ==
    LET s == removePadding(removeWhitespace(data))
    IN  IF Len(s) % 4 = 1 \/ \E i \in 1..Len(s) : ~isBase64Char(SubSeq(s, i, i))
        THEN [ ok |-> FALSE,
               error |-> "Failed to execute 'atob': The string to be decoded is not correctly encoded." ]
        ELSE [ ok |-> TRUE, bytes |-> decodeGroups(s) ]

\* String.prototype.indexOf(","), from 1; 0 when there is none
RECURSIVE indexOfComma(_, _)
indexOfComma(s, from) ==
    IF from > Len(s) THEN 0
    ELSE IF SubSeq(s, from, from) = "," THEN from
    ELSE indexOfComma(s, from + 1)

\* decodeDataUrl cutting at the comma instead of after it
decodeDataUrl_keepsComma(dataUrl) ==
    LET commaIndex == indexOfComma(dataUrl, 1)
    IN  IF commaIndex = 0 THEN [ ok |-> FALSE, error |-> "Invalid data URL format" ]
        ELSE atob(SubSeq(dataUrl, commaIndex, Len(dataUrl)))

\* decodeDataUrl: the bytes of the buffer, or the exception
decodeDataUrl(dataUrl) ==
    LET commaIndex == indexOfComma(dataUrl, 1)
    IN  IF commaIndex = 0 THEN [ ok |-> FALSE, error |-> "Invalid data URL format" ]
        ELSE atob(SubSeq(dataUrl, commaIndex + 1, Len(dataUrl)))

-----------------------------------------------------------------------------
(* SpecDataUrl: getImageBytes on data: URLs *)

\* most bytes in an encoded buffer
MaxInlineBytes == 4

\* byte values whose encodings use letters, digits, "+" and "/"
InlineByteValues == { 0, 80, 251, 255 }

base64Char(n) == SubSeq(Base64Alphabet, n + 1, n + 1)

\* base64 (RFC 4648, with padding), as btoa and FileReader.readAsDataURL
\* encode
RECURSIVE btoa(_)
btoa(bytes) ==
    IF Len(bytes) >= 3
    THEN LET n == (bytes[1] * 256 + bytes[2]) * 256 + bytes[3]
         IN  base64Char(n \div 262144) \o base64Char((n \div 4096) % 64)
             \o base64Char((n \div 64) % 64) \o base64Char(n % 64)
             \o btoa(SubSeq(bytes, 4, Len(bytes)))
    ELSE IF Len(bytes) = 2
    THEN LET n == (bytes[1] * 256 + bytes[2]) * 4
         IN  base64Char(n \div 4096) \o base64Char((n \div 64) % 64)
             \o base64Char(n % 64) \o "="
    ELSE IF Len(bytes) = 1
    THEN base64Char(bytes[1] \div 4) \o base64Char((bytes[1] % 4) * 16) \o "=="
    ELSE ""

InlineBuffers ==
    UNION { [ 1..n -> InlineByteValues ] : n \in 0..MaxInlineBytes }

MediaTypes == { "image/png", "" }

\* bytes: what the page encoded (None when the URL encodes nothing); url: the
\* URL of the image
InlineLocators ==
    { [ bytes |-> Some(b), url |-> "data:" \o m \o ";base64," \o btoa(b) ] :
        b \in InlineBuffers, m \in MediaTypes }
    \cup
    { [ bytes |-> None, url |-> u ] :
        u \in { "data:image/png;base64", "data:image/png;base64,iVBOR",
                "data:image/png;base64,iVBO%3D", "data:text/plain,hello" } }

InitDataUrl ==
    /\ inline \in InlineLocators
    /\ decoded = None
    /\ locator = None
    /\ acq = [ pc |-> "called", tried |-> <<>>, swallowed |-> <<>>,
               attempts |-> <<>>, arrayBuffer |-> None, inPage |-> None,
               awaiting |-> None, returned |-> None, thrown |-> None ]
    /\ signals = None /\ now = 0 /\ runs = 0 /\ report = None
    /\ c2paInput = None /\ c2paResult = None
    /\ job = None /\ promises = None /\ caught = None
    /\ ModuleLoaded /\ initTask = None /\ requests = None
    /\ handler = None /\ browser = None
    /\ pngData = None /\ pngResults = None /\ walk = None
    /\ creatingOffscreenDocument = None /\ offscreenDocument = None /\ ensureCalls = None

\* getImageBytes on a data: URL: decodeDataUrl, the size test and the return,
\* with nothing awaited
DecodeDataUrl ==
    /\ acq.pc = "called"
    /\ startsWith(inline.url, "data:")
    /\ LET buffer == decodeDataUrl(inline.url)
       IN  /\ acq' = IF ~buffer.ok THEN throws(acq, buffer.error)
                     ELSE IF Len(buffer.bytes) > MAX_IMAGE_SIZE
                     THEN throws(acq, tooLarge("Image", Len(buffer.bytes)))
                     ELSE returns(acq, Len(buffer.bytes))
           /\ decoded' = IF buffer.ok /\ Len(buffer.bytes) <= MAX_IMAGE_SIZE
                         THEN Some(buffer.bytes) ELSE None
    /\ UNCHANGED <<fusionVars, c2paVars, pipelineVars, offscreenVars, now, report,
                   locator, inline, handlerVars, pngVars, ensureVars>>

NextDataUrl == DecodeDataUrl

SpecDataUrl == InitDataUrl /\ [][NextDataUrl]_vars

-----------------------------------------------------------------------------
(* background.ts: the context menu click handler *)

MENU_ID == "gensnitch-check"

\* getStorageKey(tabId), with Date.now() = t
getStorageKey(tabId, t) == "lastReport:" \o ToString(tabId) \o ":" \o ToString(t)

\* encodeURIComponent, on the characters of a storage key
RECURSIVE encodeURIComponent(_)
encodeURIComponent(s) ==
    IF s = "" THEN ""
    ELSE (IF SubSeq(s, 1, 1) = ":" THEN "%3A" ELSE SubSeq(s, 1, 1))
         \o encodeURIComponent(SubSeq(s, 2, Len(s)))

\* chrome.runtime.getURL(path)
getURL(path) == "chrome-extension://gensnitch/" \o path

\* the URL openResultsWindow opens
resultsUrl(key) == getURL("ui/result.html?key=" \o encodeURIComponent(key))

\* saveReport storing every report under one fixed key
saveReport_fixedKey(storage, key, rep) ==
    [ k \in DOMAIN storage \cup { "lastReport" } |->
        IF k = "lastReport" THEN rep ELSE storage[k] ]

\* saveReport: chrome.storage.session.set({ [key]: report })
saveReport(storage, key, rep) ==
    [ k \in DOMAIN storage \cup { key } |-> IF k = key THEN rep ELSE storage[k] ]

\* err instanceof Error ? err.message : 'Unknown error occurred'
clickErrorMessage(e) == IF e.isError THEN e.message ELSE "Unknown error occurred"

-----------------------------------------------------------------------------
(* SpecHandler: one click on the context menu, with its getImageBytes call *)

TabIds == { 7 }

\* info.menuItemId, and tab?.id (None when there is no tab); info.srcUrl is
\* the URL of the locator
Clicks ==
    { [ menuItemId |-> MENU_ID, tabId |-> Some(t) ] : t \in TabIds }
    \cup { [ menuItemId |-> "other-item", tabId |-> Some(7) ],
           [ menuItemId |-> MENU_ID, tabId |-> None ] }

\* what runAnalysis resolves with in SpecHandler: a report of either kind
HandlerSignals ==
    { s \in RepeatSignals :
        /\ s.c2pa.available /\ ~s.c2pa.present /\ ~s.metadata.found
        /\ s.metadata.aiIndicators = <<>> /\ s.pngText.aiIndicators = <<>>
        /\ s.pngText.chunks = <<>> }

InitHandler ==
    /\ locator \in Locators
    /\ acq = [ pc |-> "notCalled", tried |-> <<>>, swallowed |-> <<>>,
               attempts |-> <<>>, arrayBuffer |-> None, inPage |-> None,
               awaiting |-> None, returned |-> None, thrown |-> None ]
    /\ handler \in { [ pc |-> "clicked", info |-> c, storageKey |-> None, inCatch |-> FALSE ] :
                        c \in Clicks }
    /\ browser = [ storage |-> << >>, windows |-> << >> ]
    /\ now = 0
    /\ report = None
    /\ signals = None /\ runs = 0
    /\ c2paInput = None /\ c2paResult = None
    /\ job = None /\ promises = None /\ caught = None
    /\ ModuleLoaded /\ initTask = None /\ requests = None
    /\ inline = None /\ decoded = None
    /\ pngData = None /\ pngResults = None /\ walk = None
    /\ creatingOffscreenDocument = None /\ offscreenDocument = None /\ ensureCalls = None

\* the listener up to its first await: the three early returns, the storage
\* key, and the call of getImageBytes
OnClicked ==
    /\ handler.pc = "clicked"
    /\ IF handler.info.menuItemId # MENU_ID \/ locator.url = "" \/ handler.info.tabId = None
       THEN /\ handler' = [ handler EXCEPT !.pc = "ignored" ]
            /\ acq' = acq
       ELSE /\ handler' = [ handler EXCEPT
                   !.pc = "acquiring",
                   !.storageKey = Some(getStorageKey(handler.info.tabId[1], now)) ]
            /\ acq' = [ acq EXCEPT !.pc = "called" ]
    /\ UNCHANGED <<fusionVars, c2paVars, pipelineVars, offscreenVars, now, report,
                   locator, browser, dataUrlVars, pngVars, ensureVars>>

\* getImageBytes returned and runAnalysis, which never rejects, resolves
AwaitRunAnalysis ==
    /\ handler.pc = "acquiring" /\ acq.pc = "returned"
    /\ \E rnd \in RandomValues :
          \/ \E sig \in HandlerSignals :
                report' = Some(createReport(locator.url, sig, now, rnd))
          \/ \E e \in Exceptions("metadata") :
                report' = Some(createErrorReport(locator.url, errorMessage(e), now, rnd))
    /\ handler' = [ handler EXCEPT !.pc = "saving" ]
    /\ UNCHANGED <<fusionVars, c2paVars, pipelineVars, offscreenVars, now,
                   locator, acq, browser, dataUrlVars, pngVars, ensureVars>>

\* getImageBytes rejected: the catch block builds the error report
OnClickedCatches ==
    /\ handler.pc = "acquiring" /\ acq.pc = "thrown"
    /\ \E rnd \in RandomValues :
          report' = Some(createErrorReport(
                             locator.url,
                             clickErrorMessage([ isError |-> TRUE, message |-> acq.thrown[1] ]),
                             now, rnd))
    /\ handler' = [ handler EXCEPT !.pc = "saving", !.inCatch = TRUE ]
    /\ UNCHANGED <<fusionVars, c2paVars, pipelineVars, offscreenVars, now,
                   locator, acq, browser, dataUrlVars, pngVars, ensureVars>>

\* await saveReport(storageKey, report), in the try block or the catch block
SaveReport ==
    /\ handler.pc = "saving"
    /\ browser' = [ browser EXCEPT
           !.storage = saveReport(@, handler.storageKey[1], report[1]) ]
    /\ handler' = [ handler EXCEPT !.pc = "opening" ]
    /\ UNCHANGED <<fusionVars, c2paVars, pipelineVars, offscreenVars, now, report,
                   locator, acq, dataUrlVars, pngVars, ensureVars>>

\* what chrome.windows.create rejects with
WindowErrors == { [ isError |-> TRUE, message |-> "Failed to create window" ] }

\* await openResultsWindow(storageKey) resolves
OpenResultsWindow ==
    /\ handler.pc = "opening"
    /\ browser' = [ browser EXCEPT
           !.windows = Append(@, resultsUrl(handler.storageKey[1])) ]
    /\ handler' = [ handler EXCEPT !.pc = "done" ]
    /\ UNCHANGED <<fusionVars, c2paVars, pipelineVars, offscreenVars, now, report,
                   locator, acq, dataUrlVars, pngVars, ensureVars>>

\* await openResultsWindow(storageKey) rejects: in the try block the catch
\* block takes over and builds the error report; in the catch block the
\* listener itself rejects
OpenResultsWindowFails ==
    /\ handler.pc = "opening"
    /\ \E e \in WindowErrors :
          IF handler.inCatch
          THEN /\ handler' = [ handler EXCEPT !.pc = "rejected" ]
               /\ report' = report
          ELSE /\ handler' = [ handler EXCEPT !.pc = "saving", !.inCatch = TRUE ]
               /\ \E rnd \in RandomValues :
                     report' = Some(createErrorReport(locator.url, clickErrorMessage(e),
                                                      now, rnd))
    /\ UNCHANGED <<fusionVars, c2paVars, pipelineVars, offscreenVars, now,
                   locator, acq, browser, dataUrlVars, pngVars, ensureVars>>

\* the steps of getImageBytes leave the handler where it is
NextHandler ==
    \/ OnClicked
    \/ NextAcquire
    \/ AwaitRunAnalysis
    \/ OnClickedCatches
    \/ SaveReport
    \/ OpenResultsWindow
    \/ OpenResultsWindowFails

SpecHandler == InitHandler /\ [][NextHandler]_vars

-----------------------------------------------------------------------------
(* SpecPng: analyzePngText called on one buffer, more than once *)

\* calls made on one buffer
MaxCalls == 2

RECURSIVE concat(_)
concat(seqs) == IF seqs = <<>> THEN <<>> ELSE Head(seqs) \o concat(Tail(seqs))

\* an uncompressed iTXt chunk: keyword, flag 0, method 0, empty language tag
\* and translated keyword, text
itxtChunk(key, value) ==
    pngChunk("iTXt", bytesOf(key) \o << 0, 0, 0, 0, 0 >> \o bytesOf(value))

\* a zTXt chunk: keyword, method 0, a zlib stream (header 120 156)
ztxtChunk(key) ==
    pngChunk("zTXt", bytesOf(key) \o << 0, 0 >> \o << 120, 156, 75, 76, 4, 0, 1, 2, 3, 4 >>)

textChunks(texts) == concat([ i \in 1..Len(texts) |-> textChunk(texts[i].key, texts[i].value) ])

Text(k, v) == [ key |-> k, value |-> v ]

\* buffers that do not start with the PNG signature: the signature cut short,
\* the signature with one byte changed, and other formats; each continued as
\* a PNG file with a text chunk would be
NotPngBuffers ==
    LET body == IHDR \o textChunk("parameters", "Steps: 20, Sampler: Euler") \o IEND
    IN  { SubSeq(PNG_SIGNATURE, 1, n) : n \in 0..7 }
        \cup { [ PNG_SIGNATURE EXCEPT ![i] = 0 ] \o body : i \in 1..8 }
        \cup { << 0 >> \o PNG_SIGNATURE \o body, JpegFile }

\* the text chunks that precede the damage
TextsBeforeDamage ==
    { <<>>,
      << Text("Title", "Holiday") >>,
      << Text("parameters", "Steps: 20, Sampler: Euler"), Text("Comment", "a cat") >> }

\* what follows them: a tEXt chunk declaring 65535 or 2^32 - 1 bytes, a text
\* chunk whose last bytes are missing, a chunk header cut short, the end of
\* the buffer; then, for the first two, bytes that read as a further text chunk
DamagedTails ==
    LET hidden == bytesOf("prompt") \o << 0 >> \o bytesOf("hidden") \o << 0, 0, 0, 0 >>
        whole == textChunk("prompt", "a dog")
    IN  { << 0, 0, 255, 255 >> \o bytesOf("tEXt") \o hidden \o textChunk("Software", "x") \o IEND,
          << 255, 255, 255, 255 >> \o bytesOf("tEXt") \o hidden \o IEND }
        \cup { SubSeq(whole, 1, Len(whole) - cut) : cut \in { 1, 4, 5, 9, 18, 24 } }

CorruptPngs ==
    { [ bytes |-> PNG_SIGNATURE \o head \o textChunks(t) \o tail, inflated |-> None,
        kind |-> "corrupt", texts |-> t ] :
        t \in TextsBeforeDamage, tail \in DamagedTails, head \in { <<>>, IHDR } }

PlainKeys == { "parameters", "Title", "comfyui", "Comment" }
PlainValues == { "Steps: 20, Sampler: Euler", "ComfyUI 0.3", "Holiday", "" }

\* values around the display length, the last with a marker past it
LongValues ==
    { repeat("a", n) : n \in { 499, 500, 501, 502 } }
    \cup { repeat("ab", 250) \o " Seed: 7" }

WellFormedTexts ==
    { << Text(k, v) >> : k \in PlainKeys, v \in PlainValues }
    \cup { << Text("Description", v) >> : v \in LongValues }
    \cup { << Text("prompt", "a cat"), Text("Prompt", "a dog") >>,
           << Text("Title", "flux"), Text("Software", "Flux, SDXL") >> }

WellFormedPngs ==
    { [ bytes |-> PNG_SIGNATURE \o IHDR \o textChunks(t) \o IDAT \o IEND, inflated |-> None,
        kind |-> "plain", texts |-> t ] : t \in WellFormedTexts }
    \cup
    { [ bytes |-> PNG_SIGNATURE \o IHDR \o itxtChunk("Description", v) \o IDAT \o IEND,
        inflated |-> None, kind |-> "international",
        texts |-> << Text("Description", v) >> ] : v \in { "Holiday", repeat("b", 501) } }
    \cup
    { [ bytes |-> PNG_SIGNATURE \o IHDR \o ztxtChunk("Description") \o IDAT \o IEND,
        inflated |-> Some(v), kind |-> "compressed",
        texts |-> << Text("Description", v) >> ] : v \in { "Holiday", repeat("c", 501) } }

\* compressed chunks of key 'Comment' that cannot be inflated: a zlib stream
\* the decompressor rejects, a payload without a zlib header, a payload of one
\* byte, and a compressed iTXt chunk
UninflatableChunks ==
    { ztxtChunk("Comment"),
      pngChunk("zTXt", bytesOf("Comment") \o << 0, 0 >> \o << 1, 2, 3 >>),
      pngChunk("zTXt", bytesOf("Comment") \o << 0, 0 >> \o << 120 >>),
      pngChunk("iTXt", bytesOf("Comment") \o << 0, 1, 0, 0, 0 >> \o << 120, 156, 75, 76, 4, 0 >>) }

\* the text chunks that follow the compressed one
TextsAfterFailure ==
    { [ bytes |-> textChunks(t), texts |-> t ] :
        t \in { <<>>, << Text("Title", "Holiday") >>,
                << Text("parameters", "Steps: 20, Sampler: Euler"), Text("Title", "a cat") >> } }
    \cup
    { [ bytes |-> textChunk("Title", "Holiday") \o IDAT \o itxtChunk("Description", "a cat"),
        texts |-> << Text("Title", "Holiday"), Text("Description", "a cat") >> ] }

FailedCompressionPngs ==
    { [ bytes |-> PNG_SIGNATURE \o IHDR \o textChunks(before) \o chunk \o after.bytes \o IEND,
        inflated |-> None, kind |-> "uninflatable",
        texts |-> before \o << Text("Comment", DecompressionFailed) >> \o after.texts ] :
        before \in { <<>>, << Text("Software", "GIMP") >> },
        chunk \in UninflatableChunks, after \in TextsAfterFailure }

PngInputs ==
    { [ bytes |-> b, inflated |-> None, kind |-> "notPng", texts |-> <<>> ] :
        b \in NotPngBuffers }
    \cup CorruptPngs \cup WellFormedPngs \cup FailedCompressionPngs

InitPng ==
    /\ pngData \in PngInputs
    /\ pngResults = <<>>
    /\ signals = None /\ now = 0 /\ runs = 0 /\ report = None
    /\ c2paInput = None /\ c2paResult = None
    /\ job = None /\ promises = None /\ caught = None
    /\ ModuleLoaded /\ initTask = None /\ requests = None
    /\ locator = None /\ acq = None
    /\ inline = None /\ decoded = None /\ handler = None /\ browser = None
    /\ walk = None
    /\ creatingOffscreenDocument = None /\ offscreenDocument = None /\ ensureCalls = None

\* one call of analyzePngText on the buffer resolves
AnalyzePngText ==
    /\ Len(pngResults) < MaxCalls
    /\ pngResults' = Append(pngResults, analyzePngText(pngData.bytes, pngData.inflated))
    /\ UNCHANGED <<fusionVars, c2paVars, pipelineVars, offscreenVars, now, report,
                   acquireVars, dataUrlVars, handlerVars, pngData, walk, ensureVars>>

NextPng == AnalyzePngText

SpecPng == InitPng /\ [][NextPng]_vars

-----------------------------------------------------------------------------
(* SpecWalk: the chunk loop of parsePngTextChunks, one iteration at a time *)

\* a buffer that goes on after its IEND chunk with bytes that read as a text chunk
AfterEndPngs ==
    { [ bytes |-> PNG_SIGNATURE \o IHDR \o textChunks(t) \o IEND
                    \o textChunk("prompt", "hidden") \o IEND,
        inflated |-> None, kind |-> "afterEnd", texts |-> t ] : t \in TextsBeforeDamage }

\* the signature alone, the signature with 12 and with 13 further bytes, with
\* chunks of length 0, and with an IEND chunk that declares more than is left
BareBuffers ==
    { [ bytes |-> PNG_SIGNATURE \o tail, inflated |-> None, kind |-> "bare", texts |-> <<>> ] :
        tail \in { <<>>, pngChunk("tEXt", <<>>), pngChunk("tEXt", <<>>) \o << 0 >>,
                   pngChunk("tEXt", <<>>) \o pngChunk("zTXt", <<>>) \o pngChunk("iTXt", <<>>) \o IEND,
                   << 0, 0, 0, 9 >> \o bytesOf("IEND") \o textChunk("prompt", "a dog"),
                   << 128, 0, 0, 0 >> \o bytesOf("tEXt") \o textChunk("prompt", "a dog") } }

WalkInputs ==
    { in \in PngInputs : in.kind # "notPng" /\ Len(in.bytes) < 200 }
    \cup AfterEndPngs \cup BareBuffers

InitWalk ==
    /\ pngData \in WalkInputs
    /\ walk = [ pc |-> "loop", offset |-> 8, chunks |-> <<>>, visited |-> <<>>,
                lastRead |-> 7, stop |-> "" ]
    /\ pngResults = None
    /\ signals = None /\ now = 0 /\ runs = 0 /\ report = None
    /\ c2paInput = None /\ c2paResult = None
    /\ job = None /\ promises = None /\ caught = None
    /\ ModuleLoaded /\ initTask = None /\ requests = None
    /\ locator = None /\ acq = None
    /\ inline = None /\ decoded = None /\ handler = None /\ browser = None
    /\ creatingOffscreenDocument = None /\ offscreenDocument = None /\ ensureCalls = None

\* one evaluation of the loop condition and, when it holds, one run of the
\* loop body; visited are the offsets the body ran at, lastRead is the highest
\* index of the buffer the walk has read
WalkIteration ==
    /\ walk.pc = "loop"
    /\ LET data == pngData.bytes
           offset == walk.offset
       IN  IF ~(offset < Len(data) - 12)
           THEN walk' = [ walk EXCEPT !.pc = "returned", !.stop = "end" ]
           ELSE LET length == readUint32BE(data, offset)
                    type == decodeString(slice(data, offset + 4, offset + 8))
                    chunkData == slice(data, offset + 8, offset + 8 + length)
                IN  IF length > Len(data) - offset - 12
                    THEN walk' = [ walk EXCEPT !.pc = "returned", !.stop = "overrun",
                                               !.visited = Append(@, offset),
                                               !.lastRead = offset + 7 ]
                    ELSE IF type = "IEND"
                    THEN walk' = [ walk EXCEPT !.pc = "returned", !.stop = "iend",
                                               !.visited = Append(@, offset),
                                               !.lastRead = offset + 7 + length ]
                    ELSE walk' = [ walk EXCEPT
                             !.offset = nextOffset(offset, length),
                             !.visited = Append(@, offset),
                             !.lastRead = offset + 7 + length,
                             !.chunks = @ \o
                                 ( IF type = "tEXt" THEN parseTEXt(type, chunkData)
                                   ELSE IF type = "zTXt"
                                   THEN parseZTXt(type, chunkData, pngData.inflated)
                                   ELSE IF type = "iTXt"
                                   THEN parseITXt(type, chunkData, pngData.inflated)
                                   ELSE <<>> ) ]
    /\ UNCHANGED <<fusionVars, c2paVars, pipelineVars, offscreenVars, now, report,
                   acquireVars, dataUrlVars, handlerVars, pngData, pngResults, ensureVars>>

NextWalk == WalkIteration

SpecWalk == InitWalk /\ [][NextWalk]_vars

\* the loop runs without interruption between its awaits, and every await of
\* tryDecompress settles: weak fairness of the iteration, WF_vars(NextWalk),
\* written with the guard of WalkIteration for ENABLED <<NextWalk>>_vars
SpecWalkLive ==
    SpecWalk /\ ([]<>(walk.pc # "loop") \/ []<><<NextWalk>>_vars)

-----------------------------------------------------------------------------
(* SpecEnsure: concurrent calls of ensureOffscreenDocument, from             *)
(* fetchFileViaOffscreen of imageBytes.ts and analyzeViaOffscreen of c2pa.ts. *)
(* chrome.runtime.getContexts is available (Chrome 116 and later).           *)

MaxEnsureCalls == 2

EnsureCallIds == 1..MaxEnsureCalls

\* the two modules that each declare `let creatingOffscreenDocument`
EnsureModules == { "imageBytes", "c2pa" }

\* createDocument promises that have not settled
PendingCreations ==
    { p \in EnsureCallIds : offscreenDocument.promises[p] = "pending" }

InitEnsure ==
    /\ creatingOffscreenDocument = [ m \in EnsureModules |-> None ]
    /\ offscreenDocument = [ exists |-> FALSE, createCalls |-> 0,
                             promises |-> [ p \in EnsureCallIds |-> "none" ] ]
    /\ ensureCalls = [ c \in EnsureCallIds |-> [ pc |-> "idle", module |-> "", awaits |-> 0 ] ]
    /\ signals = None /\ now = 0 /\ runs = 0 /\ report = None
    /\ c2paInput = None /\ c2paResult = None
    /\ job = None /\ promises = None /\ caught = None
    /\ ModuleLoaded /\ initTask = None /\ requests = None
    /\ locator = None /\ acq = None
    /\ inline = None /\ decoded = None /\ handler = None /\ browser = None
    /\ pngData = None /\ pngResults = None /\ walk = None

\* a pipeline invocation calls ensureOffscreenDocument of one of the modules,
\* which runs to `await hasOffscreenDocument()`
EnsureOffscreenDocument(c) ==
    /\ ensureCalls[c].pc = "idle"
    /\ \E m \in EnsureModules :
          ensureCalls' = [ ensureCalls EXCEPT ![c] =
                               [ pc |-> "hasOffscreenDocument", module |-> m, awaits |-> 0 ] ]
    /\ UNCHANGED <<creatingOffscreenDocument, offscreenDocument>>
    /\ UNCHANGED <<fusionVars, c2paVars, pipelineVars, offscreenVars, now, report,
                   acquireVars, dataUrlVars, handlerVars, pngVars>>

\* getContexts answers and the call runs on to its next await: it returns,
\* awaits the creation its module tracks, or calls chrome.offscreen.createDocument
HasOffscreenDocumentResolves(c) ==
    /\ ensureCalls[c].pc = "hasOffscreenDocument"
    /\ LET m == ensureCalls[c].module
       IN  IF offscreenDocument.exists
           THEN /\ ensureCalls' = [ ensureCalls EXCEPT ![c].pc = "returned" ]
                /\ UNCHANGED <<creatingOffscreenDocument, offscreenDocument>>
           ELSE IF creatingOffscreenDocument[m] # None
           THEN /\ ensureCalls' = [ ensureCalls EXCEPT
                                      ![c].pc = "awaitCreating",
                                      ![c].awaits = creatingOffscreenDocument[m][1] ]
                /\ UNCHANGED <<creatingOffscreenDocument, offscreenDocument>>
           ELSE /\ creatingOffscreenDocument' =
                       [ creatingOffscreenDocument EXCEPT ![m] = Some(c) ]
                /\ offscreenDocument' = [ offscreenDocument EXCEPT
                                            !.createCalls = @ + 1,
                                            !.promises[c] = "pending" ]
                /\ ensureCalls' = [ ensureCalls EXCEPT ![c].pc = "awaitCreating",
                                                       ![c].awaits = c ]
    /\ UNCHANGED <<fusionVars, c2paVars, pipelineVars, offscreenVars, now, report,
                   acquireVars, dataUrlVars, handlerVars, pngVars>>

\* the browser settles a createDocument call: the document is created, or
\* the call is rejected (always when a document exists already)
CreateDocumentSettles(p) ==
    /\ offscreenDocument.promises[p] = "pending"
    /\ \/ /\ ~offscreenDocument.exists
          /\ offscreenDocument' = [ offscreenDocument EXCEPT
                                      !.exists = TRUE, !.promises[p] = "fulfilled" ]
       \/ offscreenDocument' = [ offscreenDocument EXCEPT !.promises[p] = "rejected" ]
    /\ UNCHANGED <<creatingOffscreenDocument, ensureCalls>>
    /\ UNCHANGED <<fusionVars, c2paVars, pipelineVars, offscreenVars, now, report,
                   acquireVars, dataUrlVars, handlerVars, pngVars>>

\* `await creatingOffscreenDocument` resumes.  The call that made the promise
\* goes on to the 100 ms timer, or rethrows after its finally block has reset
\* the module's variable; a call that found the promise returns or throws.
CreationAwaited(c) ==
    /\ ensureCalls[c].pc = "awaitCreating"
    /\ LET p == ensureCalls[c].awaits
           m == ensureCalls[c].module
       IN  /\ offscreenDocument.promises[p] \in { "fulfilled", "rejected" }
           /\ IF offscreenDocument.promises[p] = "rejected"
              THEN /\ ensureCalls' = [ ensureCalls EXCEPT ![c].pc = "thrown" ]
                   /\ creatingOffscreenDocument' =
                          IF p = c THEN [ creatingOffscreenDocument EXCEPT ![m] = None ]
                          ELSE creatingOffscreenDocument
              ELSE /\ ensureCalls' = [ ensureCalls EXCEPT
                                         ![c].pc = IF p = c THEN "timer" ELSE "returned" ]
                   /\ UNCHANGED creatingOffscreenDocument
    /\ UNCHANGED offscreenDocument
    /\ UNCHANGED <<fusionVars, c2paVars, pipelineVars, offscreenVars, now, report,
                   acquireVars, dataUrlVars, handlerVars, pngVars>>

\* the 100 ms timer fires: the finally block resets the module's variable and
\* ensureOffscreenDocument returns
TimerFires(c) ==
    /\ ensureCalls[c].pc = "timer"
    /\ ensureCalls' = [ ensureCalls EXCEPT ![c].pc = "returned" ]
    /\ creatingOffscreenDocument' =
           [ creatingOffscreenDocument EXCEPT ![ensureCalls[c].module] = None ]
    /\ UNCHANGED offscreenDocument
    /\ UNCHANGED <<fusionVars, c2paVars, pipelineVars, offscreenVars, now, report,
                   acquireVars, dataUrlVars, handlerVars, pngVars>>

NextEnsure ==
    \/ \E c \in EnsureCallIds : EnsureOffscreenDocument(c)
    \/ \E c \in EnsureCallIds : HasOffscreenDocumentResolves(c)
    \/ \E p \in EnsureCallIds : CreateDocumentSettles(p)
    \/ \E c \in EnsureCallIds : CreationAwaited(c)
    \/ \E c \in EnsureCallIds : TimerFires(c)

SpecEnsure == InitEnsure /\ [][NextEnsure]_vars

-----------------------------------------------------------------------------
(* Properties of the fusion engine (SpecFusion, SpecRepeat) *)

Reported == IsSome(report)

HasAiAssertions(sig) ==
    /\ IsSome(sig.c2pa.summary)
    /\ IsSome(sig.c2pa.summary[1].aiAssertions)
    /\ sig.c2pa.summary[1].aiAssertions[1] # <<>>

\* a defined string that contains a tool-list fragment, compared case-insensitively
MatchesToolList(text) ==
    /\ IsSome(text)
    /\ \E i \in DOMAIN AI_TOOL_PATTERNS : includes(toLowerCase(text[1]), AI_TOOL_PATTERNS[i])

GeneratorOrIssuerMatches(sig) ==
    /\ IsSome(sig.c2pa.summary)
    /\ \/ MatchesToolList(sig.c2pa.summary[1].claimGenerator)
       \/ MatchesToolList(sig.c2pa.summary[1].issuer)

CertificateMatches(sig) ==
    /\ IsSome(sig.c2pa.summary)
    /\ IsSome(sig.c2pa.summary[1].certificate)
    /\ \/ MatchesToolList(sig.c2pa.summary[1].certificate[1].subject)
       \/ MatchesToolList(sig.c2pa.summary[1].certificate[1].issuer)

CreationAction(sig) ==
    /\ IsSome(sig.c2pa.summary)
    /\ IsSome(sig.c2pa.summary[1].actions)
    /\ \E i \in DOMAIN sig.c2pa.summary[1].actions[1] :
          \/ includes(sig.c2pa.summary[1].actions[1][i], "c2pa.created")
          \/ includes(sig.c2pa.summary[1].actions[1][i], "generated")

Rule1(sig) == sig.c2pa.present /\ HasAiAssertions(sig)
Rule2(sig) == sig.c2pa.present /\ (GeneratorOrIssuerMatches(sig) \/ CertificateMatches(sig))
Rule3(sig) == sig.c2pa.present /\ CreationAction(sig) /\ GeneratorOrIssuerMatches(sig)
Rule4(sig) == sig.metadata.aiIndicators # <<>>
Rule5(sig) == sig.pngText.aiIndicators # <<>>
Rule6(sig) ==
    MatchesToolList(sig.metadata.software) \/ MatchesToolList(sig.metadata.creatorTool)

\* C1: whenever the manifest is present and its AI-assertion list is non-empty,
\* the verdict of the report is AI_EVIDENCE, whatever the other signals hold.
C1_AssertionsGiveAiEvidence ==
    (Reported /\ Rule1(signals)) => report[1].verdict = "AI_EVIDENCE"

\* C1 witness: a report on a present manifest with AI assertions where no other
\* rule could have produced the verdict.
C1_Witness ==
    /\ Reported /\ Rule1(signals)
    /\ ~Rule2(signals) /\ ~Rule4(signals) /\ ~Rule5(signals) /\ ~Rule6(signals)
    /\ signals.c2pa.validated = "invalid"

\* C2: the verdict is AI_EVIDENCE exactly when one of the six precedence rules
\* holds, NO_EVIDENCE in every other case, and never ERROR.
C2_VerdictIffSomeRule ==
    Reported =>
        /\ report[1].verdict = "AI_EVIDENCE" <=>
              \/ Rule1(signals) \/ Rule2(signals) \/ Rule3(signals)
              \/ Rule4(signals) \/ Rule5(signals) \/ Rule6(signals)
        /\ report[1].verdict \in { "AI_EVIDENCE", "NO_EVIDENCE" }

\* C2 witness: a report whose only matching rule is the metadata creator-tool
\* match (rule 6), with a present manifest that matches nothing.
C2_Witness ==
    /\ Reported /\ report[1].verdict = "AI_EVIDENCE"
    /\ signals.c2pa.present
    /\ ~Rule1(signals) /\ ~Rule2(signals) /\ ~Rule4(signals) /\ ~Rule5(signals)
    /\ ~MatchesToolList(signals.metadata.software)
    /\ MatchesToolList(signals.metadata.creatorTool)

\* C4: for a NO_EVIDENCE verdict the confidence is high exactly when the manifest
\* is present and validated=valid; otherwise medium exactly when metadata or
\* PNG text was found; otherwise low.
C4_NoEvidenceConfidence ==
    (Reported /\ report[1].verdict = "NO_EVIDENCE") =>
        report[1].confidence =
            IF signals.c2pa.present /\ signals.c2pa.validated = "valid" THEN "high"
            ELSE IF signals.metadata.found \/ signals.pngText.found THEN "medium"
            ELSE "low"

\* C4 witness: a NO_EVIDENCE report on a present manifest that is not valid,
\* with metadata found, so the medium bucket is decided by the second test.
C4_Witness ==
    /\ Reported /\ report[1].verdict = "NO_EVIDENCE"
    /\ signals.c2pa.present /\ signals.c2pa.validated = "invalid"
    /\ signals.metadata.found /\ ~signals.pngText.found
    /\ report[1].confidence = "medium"

ClaimedScore(sig) ==
    (IF sig.c2pa.present /\ GeneratorOrIssuerMatches(sig) THEN 4 ELSE 0)
    + (IF sig.c2pa.present /\ HasAiAssertions(sig) THEN 3 ELSE 0)
    + (IF sig.c2pa.present /\ sig.c2pa.validated = "valid" THEN 2 ELSE 0)
    + Min(Len(sig.metadata.aiIndicators), 3)
    + Min(Len(sig.pngText.aiIndicators), 3)
    + (IF \E i \in DOMAIN sig.pngText.chunks :
              /\ toLowerCase(sig.pngText.chunks[i].key) = "parameters"
              /\ includes(toLowerCase(sig.pngText.chunks[i].value), "steps:")
       THEN 3 ELSE 0)

\* C5: for an AI_EVIDENCE verdict the score is the sum of the six documented
\* terms, the confidence is high iff score >= 5, medium iff 2 <= score < 5,
\* low iff score < 2, and the score never exceeds 18.
C5_AiEvidenceConfidence ==
    (Reported /\ report[1].verdict = "AI_EVIDENCE") =>
        /\ aiEvidenceScore(signals) = ClaimedScore(signals)
        /\ aiEvidenceScore(signals) <= 18
        /\ report[1].confidence = "high" <=> aiEvidenceScore(signals) >= 5
        /\ report[1].confidence = "medium" <=>
              (2 <= aiEvidenceScore(signals) /\ aiEvidenceScore(signals) < 5)
        /\ report[1].confidence = "low" <=> aiEvidenceScore(signals) < 2

\* C5 witness: an AI_EVIDENCE report whose indicator lists are longer than the
\* cap of 3 and whose capped score stays below the high threshold.
C5_Witness ==
    /\ Reported /\ report[1].verdict = "AI_EVIDENCE"
    /\ Len(signals.metadata.aiIndicators) > 3
    /\ Len(signals.pngText.aiIndicators) = 1
    /\ ClaimedScore(signals) = 4
    /\ report[1].confidence = "medium"

NoteSays(text) ==
    \E i \in 1..Len(report[1].notes) : includes(report[1].notes[i], text)

\* C33 as stated: for a present manifest the notes restate the validation
\* status of the c2pa signal: a note saying that the signature is valid or
\* cryptographically verified appears only when validated is 'valid', and
\* when validated is 'invalid' the notes say that signature verification
\* failed.
C33_Original ==
    (Reported /\ signals.c2pa.present) =>
        /\ (NoteSays("Signature valid") \/ NoteSays("Signature cryptographically verified"))
              => signals.c2pa.validated = "valid"
        /\ signals.c2pa.validated = "invalid" => NoteSays("Signature verification failed")

-----------------------------------------------------------------------------
(* Properties of the analysis pipeline (Spec) *)

\* runAnalysis returned from its try block
ReturnedNormally == Reported /\ \A p \in Producers : promises[p].state = "fulfilled"

\* runAnalysis returned from its catch block
ReturnedFromCatch == Reported /\ IsSome(caught)

\* the image is a PNG file without text chunks, its metadata carries no AI indicator
TextlessPngWithoutIndicators ==
    /\ ReturnedNormally
    /\ job.image.bytes \in TextlessPngs
    /\ report[1].signals.metadata.aiIndicators = <<>>

ValidTrustedWithoutAssertions ==
    /\ report[1].signals.c2pa.present
    /\ report[1].signals.c2pa.validated = "valid"
    /\ report[1].signals.c2pa.trust = "trusted"
    /\ ~HasAiAssertions(report[1].signals)

NoteCarriesThrownText ==
    /\ Len(report[1].notes) = 1
    /\ includes(report[1].notes[1], caught[1].message)

\* C6 as stated: when a producer throws, runAnalysis resolves with a report of
\* verdict ERROR and confidence low whose only note carries the exception
\* message; every ERROR report has confidence low.
C6_Original ==
    /\ ReturnedFromCatch =>
          /\ report[1].verdict = "ERROR" /\ report[1].confidence = "low"
          /\ NoteCarriesThrownText
    /\ (Reported /\ report[1].verdict = "ERROR") => report[1].confidence = "low"

\* C6: runAnalysis always resolves with a report; when a producer throws, the
\* report has verdict ERROR, confidence low and exactly one note, which is
\* "Analysis failed: " followed by the message of a thrown Error instance, and
\* by "Unknown analysis error" when the thrown value is not an Error instance.
\* Every report with verdict ERROR has confidence low, and calculateConfidence
\* maps ERROR to low on any signals.
C6_ErrorReport ==
    /\ ReturnedFromCatch =>
          /\ report[1].verdict = "ERROR" /\ report[1].confidence = "low"
          /\ report[1].notes =
                << "Analysis failed: " \o
                     (IF caught[1].isError THEN caught[1].message
                      ELSE "Unknown analysis error") >>
    /\ (Reported /\ report[1].verdict = "ERROR") =>
          (report[1].confidence = "low" /\ ReturnedFromCatch)
    /\ Reported => calculateConfidence("ERROR", report[1].signals) = "low"
    /\ Reported => (ReturnedNormally \/ ReturnedFromCatch)

\* C6 witness: the metadata analyzer threw a value that is not an Error after
\* the two other analyzers had resolved, and runAnalysis returned the report.
C6_Witness ==
    /\ ReturnedFromCatch
    /\ ~caught[1].isError
    /\ promises["metadata"].state = "rejected"
    /\ promises["c2pa"].state = "fulfilled" /\ promises["pngText"].state = "fulfilled"
    /\ report[1].notes = << "Analysis failed: Unknown analysis error" >>

\* runAnalysis returned normally on an image whose manifest analysis met a
\* verification capability that failed to initialise
VerifierFailedToInitialise ==
    /\ ReturnedNormally
    /\ job.channel = "ok" /\ job.library.init # "ok"

\* C13: when the verification capability failed to initialise, the manifest
\* result is available=false, present=false with the initialisation error in
\* errors, and the report's verdict is not ERROR: it is AI_EVIDENCE exactly
\* when the metadata or PNG-text rules hold, NO_EVIDENCE otherwise.
C13_UnavailableVerifierIsSoft ==
    VerifierFailedToInitialise =>
        /\ ~report[1].signals.c2pa.available /\ ~report[1].signals.c2pa.present
        /\ report[1].signals.c2pa.errors = << job.library.initError >>
        /\ report[1].verdict # "ERROR"
        /\ report[1].verdict =
              IF Rule4(report[1].signals) \/ Rule5(report[1].signals)
                 \/ Rule6(report[1].signals)
              THEN "AI_EVIDENCE" ELSE "NO_EVIDENCE"

\* C13 witness: with the verifier unavailable, the report on a PNG with a
\* parameters chunk is AI_EVIDENCE from the PNG text alone.
C13_Witness ==
    /\ VerifierFailedToInitialise
    /\ job.image.bytes = ParametersPng
    /\ ~Rule4(report[1].signals) /\ ~Rule6(report[1].signals)
    /\ report[1].verdict = "AI_EVIDENCE"
    /\ Len(report[1].signals.c2pa.errors) = 1

\* C26: a report with verdict AI_EVIDENCE or NO_EVIDENCE exists only when the
\* manifest analysis, the metadata decoder and the chunk parser have all
\* completed, whichever completed last, and its signals are the three results
\* they returned for this image.
C26_FusionWaitsForAllProducers ==
    (report # None /\ report[1].verdict \in { "AI_EVIDENCE", "NO_EVIDENCE" }) =>
        /\ \A p \in { "c2pa", "metadata", "pngText" } : promises[p].state = "fulfilled"
        /\ report[1].signals.c2pa = promises["c2pa"].value[1]
        /\ report[1].signals.metadata = promises["metadata"].value[1]
        /\ report[1].signals.pngText = promises["pngText"].value[1]
        /\ report[1].signals.c2pa = analyzeViaOffscreen(job.channel, job.library)
        /\ report[1].signals.metadata = job.metadata
        /\ report[1].signals.pngText = analyzePngText(job.image.bytes, job.image.inflated)

\* C26 witness: a report with verdict AI_EVIDENCE whose chunk result has a
\* chunk and whose manifest result reports a manifest.
C26_Witness ==
    /\ report # None /\ report[1].verdict = "AI_EVIDENCE"
    /\ report[1].signals.pngText.found /\ report[1].signals.c2pa.present
    /\ \A p \in { "c2pa", "metadata", "pngText" } : promises[p].state = "fulfilled"

\* the text chunks of the image as the parser reads them, values in full
RawTexts == parsePngTextChunks(job.image.bytes, job.image.inflated)

\* the image is a PNG with a 'parameters' chunk whose value holds 'steps:'
CarriesStructuredParameters ==
    /\ isPNG(job.image.bytes)
    /\ \E i \in 1..Len(RawTexts) :
          /\ toLowerCase(RawTexts[i].key) = "parameters"
          /\ includes(toLowerCase(RawTexts[i].value), "steps:")

\* the signals of the report with every chunk value in full
SignalsWithFullValues ==
    [ report[1].signals EXCEPT
        !.pngText.chunks = [ i \in DOMAIN @ |-> [ @[i] EXCEPT !.value = RawTexts[i].value ] ] ]

\* C34 as stated: for a PNG with a 'parameters' chunk whose value contains
\* 'steps:' at any position (also beyond the 500th character), the confidence
\* of the AI_EVIDENCE report is the one of a score that includes the +3
\* structured-parameter bonus.
C34_Original ==
    (ReturnedNormally /\ CarriesStructuredParameters
        /\ report[1].verdict = "AI_EVIDENCE") =>
        /\ hasSDParams(report[1].signals.pngText)
        /\ report[1].confidence = calculateConfidence("AI_EVIDENCE", SignalsWithFullValues)

\* the generic chunk keys an image editor or a camera tool writes
GenericKeys == { "software", "comment", "description", "creator", "source" }

\* the image is a PNG whose text chunks all have generic keys and values in
\* which the value scan finds no generation parameter and no tool name
CarriesOnlyGenericTexts ==
    /\ isPNG(job.image.bytes)
    /\ Len(RawTexts) > 0
    /\ \A i \in 1..Len(RawTexts) :
          /\ toLowerCase(RawTexts[i].key) \in GenericKeys
          /\ findChunkAIIndicators(RawTexts[i].value) = <<>>

\* C39 as stated: a PNG whose text chunks carry only generic keys with values
\* free of generation parameters and tool names, without a manifest and
\* without metadata indicators, receives verdict NO_EVIDENCE, and the chunk
\* parser reports no AI indicator for it.
C39_Original ==
    (ReturnedNormally /\ CarriesOnlyGenericTexts
        /\ ~report[1].signals.c2pa.present
        /\ report[1].signals.metadata.aiIndicators = <<>>) =>
        /\ report[1].signals.pngText.aiIndicators = <<>>
        /\ report[1].verdict = "NO_EVIDENCE"

\* the shape every manifest result has
WellShaped(r) ==
    /\ r.present => r.available
    /\ ~r.present => r.validated = "unknown" /\ r.trust = "unknown" /\ r.summary = None

\* C40: the manifest result that analyzers.analyzeC2PA resolves with, and the
\* one in the signals of the report, satisfies on every return path: present
\* implies available, and a result without a manifest has validated unknown,
\* trust unknown and no summary.
C40_ResultShape ==
    /\ promises["c2pa"].state = "fulfilled" => WellShaped(promises["c2pa"].value[1])
    /\ ReturnedNormally => WellShaped(report[1].signals.c2pa)

\* C40 witness: the message to the offscreen document failed, and fusion has
\* produced the report from the unavailable result.
C40_Witness ==
    /\ ReturnedNormally /\ job.channel = "sendFails"
    /\ ~report[1].signals.c2pa.available /\ ~report[1].signals.c2pa.present
    /\ Len(report[1].signals.c2pa.errors) = 1
    /\ startsWith(report[1].signals.c2pa.errors[1], "Offscreen error: ")

-----------------------------------------------------------------------------
(* Properties of the offscreen document (SpecOffscreen) *)

Answered(r) == requests[r].pc = "done"

\* C12 as stated: a result has trust=trusted only if the fingerprint of the
\* signer's certificate is a member of the trust list loaded by loadTrustList;
\* with an empty trust list no result has trust=trusted.
C12_Original ==
    \A r \in RequestIds :
        (Answered(r) /\ requests[r].result[1].trust = "trusted") =>
            /\ trustList # None
            /\ requests[r].image[1].signer # None
            /\ requests[r].image[1].signer[1] \in trustList[1]

\* C15: whatever the number and the interleaving of the requests, the
\* initialisation closure is started at most once and createC2pa is invoked at
\* most once; the request that starts it is the first one received; once
\* initError is set no step starts the closure or invokes createC2pa again.
C15_InitialisedAtMostOnce ==
    /\ [](/\ initTask.starts <= 1
          /\ initTask.createCalls <= 1
          /\ \A r \in RequestIds : requests[r].via = "start" => requests[r].order = 1)
    /\ [][ initError # None =>
               /\ initTask'.starts = initTask.starts
               /\ initTask'.createCalls = initTask.createCalls ]_vars

\* C15 witness: createC2pa was invoked and threw; a request received after the
\* failure and one that awaited the in-flight promise were both answered
\* without a second attempt.
C15_Witness ==
    /\ initError # None /\ initTask.createCalls = 1
    /\ \E r1, r2 \in RequestIds :
          /\ Answered(r1) /\ requests[r1].via = "start"
          /\ Answered(r2) /\ requests[r2].via = "false" /\ requests[r2].order = 2
          /\ ~requests[r2].result[1].available

\* the initialisation closure has been started and has not yet returned
InitInFlight == initTask.step \in { "fetchWasm", "createC2pa", "loadTrustList" }

\* C32 as stated: a request received while the initialisation is in flight
\* awaits the in-flight promise, and no request goes on to read a manifest
\* before the whole initialisation (createC2pa, then the trust-list load) has
\* completed.
C32_Original ==
    [][ \A r \in RequestIds :
          /\ (requests[r].pc = "idle" /\ requests'[r].pc # "idle" /\ InitInFlight)
                => requests'[r].via = "await"
          /\ (requests[r].pc # "done" /\ requests'[r].pc = "done"
                /\ requests'[r].initialized = "true")
                => initTask.step = "done" ]_vars

-----------------------------------------------------------------------------
(* Properties of the image retrieval (SpecAcquire) *)

Finished == acq.pc \in { "returned", "thrown" }

\* the returned bytes were encoded by the canvas
Rasterized ==
    /\ acq.pc = "returned" /\ acq.attempts # <<>>
    /\ acq.attempts[Len(acq.attempts)].ok
    /\ acq.attempts[Len(acq.attempts)].method = "canvas-METADATA-LOST"

SizeExceeded(message) == includes(toLowerCase(message), "too large")

RemoteWithoutGrant ==
    /\ startsWith(locator.url, "http://") \/ startsWith(locator.url, "https://")
    /\ ~locator.permission

\* C16: inside fetchImageInPage the strategies are attempted in the order
\* fetch without credentials, XHR without credentials, fetch with credentials,
\* XHR with credentials, canvas; a strategy is attempted only if every earlier
\* one failed, so the first success ends the chain and the canvas comes only
\* after the four byte-preserving strategies have failed.
C16_StrategyOrder ==
    /\ Len(acq.attempts) <= 5
    /\ \A i \in DOMAIN acq.attempts :
          /\ acq.attempts[i].method =
                << "fetch-no-creds", "xhr-no-creds", "fetch-with-creds",
                   "xhr-with-creds", "canvas-METADATA-LOST" >>[i]
          /\ \A j \in 1..(i - 1) : ~acq.attempts[j].ok
    /\ (acq.inPage # None /\ acq.inPage[1].success) =>
          acq.inPage[1].method = acq.attempts[Len(acq.attempts)].method

\* C16 witness: the chain ended at its third strategy, whose bytes were returned.
C16_Witness ==
    /\ acq.pc = "returned" /\ Len(acq.attempts) = 3
    /\ acq.attempts[3].ok /\ acq.inPage[1].method = "fetch-with-creds"

\* C17 as stated: bytes produced by the canvas reach the caller of
\* getImageBytes flagged metadataPreserving=false and with a warning attached.
C17_Original ==
    Rasterized =>
        /\ "metadataPreserving" \in DOMAIN acq.returned[1]
        /\ "warning" \in DOMAIN acq.returned[1]

\* C18: every buffer getImageBytes returns has byteLength <= 25 MB, for data:,
\* file://, blob: and http(s) URLs and on every path that returns one.
C18_SizeCeiling ==
    acq.pc = "returned" => acq.returned[1].byteLength <= 25 * 1024 * 1024

\* C18 witness: a file of more than 25 MB was refused by two methods and the
\* page context returned the smaller PNG its canvas encoded.
C18_Witness ==
    /\ Rasterized
    /\ startsWith(locator.url, "file://")
    /\ locator.byteLength > 25 * 1024 * 1024
    /\ Len(acq.swallowed) = 2
    /\ acq.returned[1].byteLength = 1024

\* C19 as stated: once a strategy has detected that the image exceeds 25 MB,
\* getImageBytes fails with the size-exceeded error, and that error is never
\* swallowed by falling through to a further strategy.
C19_Original ==
    /\ \A i \in DOMAIN acq.swallowed : ~SizeExceeded(acq.swallowed[i])
    /\ (Finished /\ \E i \in DOMAIN acq.swallowed : SizeExceeded(acq.swallowed[i])) =>
          (acq.thrown # None /\ SizeExceeded(acq.thrown[1]))

\* C20 as stated: for an http(s) URL whose origin the extension holds no
\* permission for and is granted none, getImageBytes fails with a
\* permission-denied error and fetches nothing, directly or through the page.
C20_Original ==
    (RemoteWithoutGrant /\ acq.pc # "called") =>
        /\ acq.tried = <<>>
        /\ Finished =>
              (acq.thrown # None /\ includes(toLowerCase(acq.thrown[1]), "permission denied"))

\* C21 as stated: for an http(s) URL without a grant, the first thing
\* getImageBytes does is request access to that origin, and before it fails
\* with permission denied it has also requested access to all http and https
\* origins.
C21_Original ==
    RemoteWithoutGrant =>
        /\ acq.tried # <<>> => acq.tried[1] = "permissions.request(origin)"
        /\ (acq.thrown # None /\ includes(toLowerCase(acq.thrown[1]), "permission denied")) =>
              \E i \in DOMAIN acq.tried : acq.tried[i] = "permissions.request(all)"

IsFileUrl == startsWith(locator.url, "file://")
IsBlobUrl == startsWith(locator.url, "blob:")

\* the methods that run with the capability of the extension
ElevatedMethods == { "isolated", "offscreen", "pageIsolated" }

\* C22 as stated: for blob: and file:// URLs alike, the page's own context is
\* used only after an attempt in an elevated context has been made and failed.
C22_Original ==
    (IsFileUrl \/ IsBlobUrl) =>
        \A i \in DOMAIN acq.tried :
            acq.tried[i] = "page" =>
                /\ i > 1
                /\ \A j \in 1..(i - 1) : acq.tried[j] \in ElevatedMethods

\* C22 amended: for a file:// URL the page's own context is used only after
\* the isolated world and the offscreen document have both been tried and
\* have both failed; for a blob: URL the page's own (MAIN world) context is
\* tried first, and the isolated world only after the injection into the
\* MAIN world has thrown.
C22_DelegationOrder ==
    /\ IsFileUrl =>
          /\ \A i \in DOMAIN acq.tried :
                 i <= 3 => acq.tried[i] = << "isolated", "offscreen", "page" >>[i]
          /\ Len(acq.tried) >= 3 => Len(acq.swallowed) = 2
    /\ IsBlobUrl =>
          /\ \A i \in DOMAIN acq.tried :
                 acq.tried[i] = << "page", "pageIsolated" >>[i]
          /\ Len(acq.tried) <= 2
          /\ acq.swallowed = <<>>

\* C22 witness: a file:// URL whose two extension-side methods failed and
\* whose bytes the page's own context returned.
C22_Witness ==
    /\ IsFileUrl /\ acq.pc = "returned"
    /\ acq.tried = << "isolated", "offscreen", "page" >>
    /\ acq.attempts # <<>>

\* C24 as stated: no attempt of getImageBytes stays without an answer for
\* ever: an attempt nothing answers ends as a failure of that attempt and the
\* call goes on to its next strategy, or ends.
C24_Original ==
    acq.awaiting = None

\* C23: the buffer getImageBytes returns for the base64 data: URL of a byte
\* sequence holds exactly those bytes, and the call has fetched nothing,
\* injected no script, sent no message and awaited nothing; the call does
\* not fail on such a URL.
C23_InlineRoundTrip ==
    (inline.bytes # None /\ acq.pc # "called") =>
        /\ acq.pc = "returned"
        /\ decoded = inline.bytes
        /\ acq.returned[1].byteLength = Len(inline.bytes[1])
        /\ acq.tried = <<>> /\ acq.attempts = <<>> /\ acq.awaiting = None

\* C23 witness: four bytes, among them 251 and 255, came back from their
\* data: URL.
C23_Witness ==
    /\ acq.pc = "returned"
    /\ inline.bytes = Some(<< 251, 255, 0, 80 >>)
    /\ decoded = Some(<< 251, 255, 0, 80 >>)

-----------------------------------------------------------------------------
(* Properties of the click handler (SpecHandler) *)

\* the report the handler holds is the error report of the failed retrieval
IsAcquisitionErrorReport ==
    /\ report # None
    /\ report[1].verdict = "ERROR" /\ report[1].confidence = "low"
    /\ report[1].url = locator.url
    /\ Len(report[1].notes) = 1 /\ includes(report[1].notes[1], acq.thrown[1])

C38_Original ==
    [][ \A k \in DOMAIN browser.storage :
            k \in DOMAIN browser'.storage /\ browser'.storage[k] = browser.storage[k] ]_vars

-----------------------------------------------------------------------------
(* Properties of the chunk parser (SpecPng) *)

StartsWithSignature ==
    /\ Len(pngData.bytes) >= 8
    /\ SubSeq(pngData.bytes, 1, 8) = << 137, 80, 78, 71, 13, 10, 26, 10 >>

\* the chunks the parser is to return for the text chunks a buffer was built
\* from: the value cut to its first 500 characters when it is longer
DisplayedTexts ==
    [ j \in 1..Len(pngData.texts) |->
        [ key |-> pngData.texts[j].key,
          value |-> IF Len(pngData.texts[j].value) > 500
                    THEN SubSeq(pngData.texts[j].value, 1, 500)
                    ELSE pngData.texts[j].value,
          truncated |-> Len(pngData.texts[j].value) > 500 ] ]

\* C27: for a buffer whose first 8 bytes are not the PNG signature, a buffer
\* of fewer than 8 bytes included, every call of analyzePngText gives
\* found=false, chunks=[] and aiIndicators=[], whatever follows, so that
\* repeated calls agree.
C27_NotPngYieldsNothing ==
    ~StartsWithSignature =>
        \A i \in DOMAIN pngResults :
            pngResults[i] = [ found |-> FALSE, chunks |-> <<>>, aiIndicators |-> <<>> ]

\* C27 witness: the signature with its sixth byte changed, followed by a text
\* chunk, has been analysed twice.
C27_Witness ==
    /\ Len(pngResults) = 2
    /\ Len(pngData.bytes) > 8
    /\ SubSeq(pngData.bytes, 1, 5) = << 137, 80, 78, 71, 13 >> /\ pngData.bytes[6] = 0
    /\ ~pngResults[2].found

\* C28: for a buffer that starts with the signature and is damaged further on
\* (a chunk length running past the end, or the buffer cut short), every call
\* returns the text chunks that precede the damage, all of them and no other.
C28_ParsedBeforeDamageKept ==
    (StartsWithSignature /\ pngData.kind = "corrupt") =>
        \A i \in DOMAIN pngResults :
            /\ pngResults[i].chunks = DisplayedTexts
            /\ pngResults[i].found = (pngData.texts # <<>>)

\* C28 witness: two text chunks precede a chunk that declares 65535 bytes.
C28_Witness ==
    /\ pngData.kind = "corrupt" /\ Len(pngData.texts) = 2
    /\ \E o \in 1..(Len(pngData.bytes) - 3) :
          SubSeq(pngData.bytes, o, o + 3) = << 0, 0, 255, 255 >>
    /\ Len(pngResults) >= 1 /\ Len(pngResults[1].chunks) = 2

\* C29: every returned chunk has a value of at most 500 characters;
\* truncated holds exactly when the extracted value was longer than 500, and
\* then the value is its first 500 characters; otherwise it is unchanged.
C29_ValueTruncation ==
    \A i \in DOMAIN pngResults :
        /\ \A j \in DOMAIN pngResults[i].chunks : Len(pngResults[i].chunks[j].value) <= 500
        /\ pngData.kind \in { "plain", "international", "compressed" } =>
              pngResults[i].chunks = DisplayedTexts

\* C29 witness: a value of 501 characters came back as 500, marked truncated.
C29_Witness ==
    /\ pngData.kind = "plain" /\ Len(pngData.texts) = 1
    /\ Len(pngData.texts[1].value) = 501
    /\ Len(pngResults) >= 1
    /\ Len(pngResults[1].chunks[1].value) = 500 /\ pngResults[1].chunks[1].truncated

\* membership in a list of indicators
IsIndicator(list, str) == \E n \in DOMAIN list : list[n] = str

\* a key-derived indicator for the key, in whichever letter case it was
\* first met
HasKeyIndicator(list, key) ==
    \E n \in DOMAIN list :
        /\ Len(list[n]) = Len("PNG key: ") + Len(key)
        /\ toLowerCase(list[n]) = "png key: " \o toLowerCase(key)

KnownKeyNames ==
    { "parameters", "sd-metadata", "prompt", "negative_prompt", "negativeprompt",
      "workflow", "comfyui", "automatic1111", "a1111", "dream", "generation_data",
      "ai_metadata", "source", "comment", "description", "software", "creator" }

ValueMarkers ==
    { "steps:", "sampler:", "cfg scale:", "seed:", "model:", "model hash:",
      "clip skip:", "lora:", "negative prompt:", "stable diffusion", "comfyui",
      "automatic1111", "midjourney", "dall-e", "flux", "sdxl" }

\* C30 as stated: for a well-formed PNG every tEXt chunk is returned with its
\* key and value and found=true; the indicators hold every marker of the
\* value list that a value contains and, for every key containing a known
\* key name, the key-derived indicator 'PNG key: <key>', which is no value
\* marker.
C30_Original ==
    pngData.kind = "plain" =>
        \A i \in DOMAIN pngResults :
            /\ pngResults[i].found
            /\ pngResults[i].chunks = DisplayedTexts
            /\ \A j \in DOMAIN pngData.texts :
                  /\ \A m \in ValueMarkers :
                        includes(toLowerCase(pngData.texts[j].value), m) =>
                            IsIndicator(pngResults[i].aiIndicators, m)
                  /\ (\E k \in KnownKeyNames : includes(toLowerCase(pngData.texts[j].key), k)) =>
                        /\ HasKeyIndicator(pngResults[i].aiIndicators, pngData.texts[j].key)
                        /\ ("PNG key: " \o pngData.texts[j].key) \notin ValueMarkers

\* C35: when a zTXt chunk or a compressed iTXt chunk cannot be inflated, the
\* parser returns a chunk with its key and the placeholder value, and goes
\* on: the text chunks before it and every well-formed text chunk after it
\* are returned as well, in order.
C35_FailedDecompressionKeepsGoing ==
    pngData.kind = "uninflatable" =>
        \A i \in DOMAIN pngResults :
            /\ pngResults[i].found
            /\ pngResults[i].chunks = DisplayedTexts
            /\ \E j \in DOMAIN pngResults[i].chunks :
                  /\ pngResults[i].chunks[j].key = "Comment"
                  /\ pngResults[i].chunks[j].value = "[compressed - decompression failed]"

\* C35 witness: a zTXt chunk without a zlib header stands between a tEXt
\* chunk and two later ones (a tEXt and an iTXt chunk); four chunks came back,
\* the second with the placeholder.
C35_Witness ==
    /\ pngData.kind = "uninflatable"
    /\ \E o \in 1..(Len(pngData.bytes) - 2) : SubSeq(pngData.bytes, o, o + 2) = << 1, 2, 3 >>
    /\ Len(pngResults) >= 1 /\ Len(pngResults[1].chunks) = 4
    /\ pngResults[1].chunks[2].value = "[compressed - decompression failed]"
    /\ pngResults[1].chunks[4].key = "Description"

\* key and value of the chunks the walk has collected
WalkedTexts == [ j \in 1..Len(walk.chunks) |->
                   [ key |-> walk.chunks[j].key, value |-> walk.chunks[j].value ] ]

\* C36: the chunk walk terminates on every buffer: the offset grows in every
\* iteration, every read of a length, a type or a payload lies inside the
\* buffer, the walk stops at the first IEND chunk or at the first chunk whose
\* declared length runs past the end of the buffer, and it reports the text
\* chunks located before that point and none located after it.
C36_WalkTerminates ==
    /\ [](walk.lastRead < Len(pngData.bytes))
    /\ [][ /\ walk'.offset >= walk.offset
           /\ walk'.pc = "loop" => walk'.offset > walk.offset
           /\ walk.pc = "returned" => walk' = walk ]_vars
    /\ [](walk.pc = "returned" =>
            /\ WalkedTexts = pngData.texts
            /\ walk.chunks = parsePngTextChunks(pngData.bytes, pngData.inflated)
            /\ walk.stop = "iend" =>
                  SubSeq(pngData.bytes, walk.offset + 5, walk.offset + 8) = << 73, 69, 78, 68 >>
            /\ walk.stop = "overrun" =>
                  readUint32BE(pngData.bytes, walk.offset)
                      > Len(pngData.bytes) - walk.offset - 12
            /\ walk.stop = "end" => walk.offset + 12 >= Len(pngData.bytes))
    /\ <>(walk.pc = "returned")

\* C36 witness: the walk has returned at an IEND chunk after three iterations,
\* with one text chunk, on a buffer that holds a further text chunk after it.
C36_Witness ==
    /\ walk.pc = "returned" /\ walk.stop = "iend"
    /\ pngData.kind = "afterEnd"
    /\ Len(walk.visited) = 3 /\ Len(walk.chunks) = 1
    /\ walk.offset + 12 < Len(pngData.bytes)

-----------------------------------------------------------------------------
(* Properties of the offscreen document creation (SpecEnsure) *)

\* C37 as stated: across the concurrent calls of both modules, at most one
\* createDocument call is in flight at any time, and createDocument is never
\* called while a document exists or while another creation is pending.
C37_Original ==
    /\ [](Cardinality(PendingCreations) <= 1)
    /\ [][ offscreenDocument'.createCalls > offscreenDocument.createCalls =>
              (~offscreenDocument.exists /\ PendingCreations = {}) ]_vars

-----------------------------------------------------------------------------
(* Properties of the manifest trust classifier (SpecC2PA) *)

\* the classifier has run on a readable manifest whose reported state is st
ClassifiedWithState(st) ==
    /\ IsSome(c2paResult)
    /\ c2paInput.init = "ok" /\ c2paInput.reader = "reader"
    /\ c2paInput.manifestStore.validation_state = Some(st)

\* the codes of validation_results.activeManifest.<list>, the empty set when
\* the list is absent
CodesOf(list) ==
    LET vr == c2paInput.manifestStore.validation_results
    IN  IF IsSome(vr) /\ IsSome(vr[1].activeManifest)
           /\ IsSome(vr[1].activeManifest[1][list])
        THEN { vr[1].activeManifest[1][list][1][i] :
                   i \in DOMAIN vr[1].activeManifest[1][list][1] }
        ELSE {}

HasFailureList ==
    LET vr == c2paInput.manifestStore.validation_results
    IN  IsSome(vr) /\ IsSome(vr[1].activeManifest)
           /\ IsSome(vr[1].activeManifest[1].failure)

SignatureSuccessCodes ==
    { Some("claimSignature.validated"), Some("claimSignature.insideValidity") }

HasSignatureSuccess == CodesOf("success") \cap SignatureSuccessCodes # {}

IsTrustCode(code) ==
    IsSome(code) /\ (includes(code[1], "untrusted") \/ includes(code[1], "trust"))

Classified(validated, trust) ==
    /\ c2paResult[1].present
    /\ c2paResult[1].validated = validated
    /\ c2paResult[1].trust = trust

\* C8: a present manifest reported 'Trusted' is classified valid/trusted and
\* one reported 'Valid' is classified valid/untrusted, whatever the success
\* and failure code lists hold.
C8_TrustedAndValidStates ==
    /\ ClassifiedWithState("Trusted") => Classified("valid", "trusted")
    /\ ClassifiedWithState("Valid") => Classified("valid", "untrusted")

\* C8 witness: a 'Trusted' manifest classified valid/trusted although its
\* lists hold no signature-success code and a failure that is not about trust.
C8_Witness ==
    /\ ClassifiedWithState("Trusted") /\ Classified("valid", "trusted")
    /\ ~HasSignatureSuccess /\ CodesOf("success") # {}
    /\ \E code \in CodesOf("failure") : ~IsTrustCode(code)

\* C9: an 'Invalid' manifest with a signature-validated success code and a
\* failure list whose every code is trust-related is classified
\* valid/untrusted.
C9_InvalidButOnlyUntrusted ==
    ( /\ ClassifiedWithState("Invalid")
      /\ HasSignatureSuccess
      /\ HasFailureList /\ \A code \in CodesOf("failure") : IsTrustCode(code) )
    => Classified("valid", "untrusted")

\* C9 witness: such a manifest with a non-empty failure list.
C9_Witness ==
    /\ ClassifiedWithState("Invalid") /\ HasSignatureSuccess
    /\ CodesOf("failure") # {} /\ \A code \in CodesOf("failure") : IsTrustCode(code)
    /\ Classified("valid", "untrusted")

\* C10: an 'Invalid' manifest without a signature-success code is classified
\* invalid/unknown, whatever the failure list holds; it is never valid.
C10_InvalidWithoutSignatureSuccess ==
    (ClassifiedWithState("Invalid") /\ ~HasSignatureSuccess)
    => (Classified("invalid", "unknown") /\ c2paResult[1].validated # "valid")

\* C10 witness: an 'Invalid' manifest whose success list is non-empty but
\* holds no signature-success code and whose failures are all trust-related.
C10_Witness ==
    /\ ClassifiedWithState("Invalid") /\ ~HasSignatureSuccess
    /\ CodesOf("success") # {}
    /\ CodesOf("failure") # {} /\ \A code \in CodesOf("failure") : IsTrustCode(code)
    /\ Classified("invalid", "unknown")

\* C11 as stated: a present manifest whose reported state is none of 'Trusted',
\* 'Valid' and 'Invalid' is classified unknown/unknown, whatever the
\* failure-code and validation-status lists hold.
C11_Original ==
    ClassifiedWithState("Unrecognized") => Classified("unknown", "unknown")

\* the reader reported that the image carries no manifest: it is null, or
\* fromBlob threw an error saying so
NoManifestCondition ==
    /\ c2paInput.init = "ok"
    /\ \/ c2paInput.reader = "null"
       \/ /\ c2paInput.reader = "throws"
          /\ \E marker \in NoManifestMarkers :
                includes(toLowerCase(c2paInput.readError), marker)

\* C14: with the verifier initialised and no manifest in the image (a null
\* reader, or a read error that reports a no-manifest condition), the result
\* is available=true, present=false, validated=unknown, trust=unknown with an
\* empty errors list.
C14_NoManifest ==
    (IsSome(c2paResult) /\ NoManifestCondition) =>
        /\ c2paResult[1].available /\ ~c2paResult[1].present
        /\ c2paResult[1].validated = "unknown" /\ c2paResult[1].trust = "unknown"
        /\ c2paResult[1].errors = <<>>

\* C14 witness: fromBlob threw "No manifest found in asset", whose marker is
\* matched only after lower-casing, and the result carries no error.
C14_Witness ==
    /\ IsSome(c2paResult) /\ NoManifestCondition
    /\ c2paInput.reader = "throws"
    /\ c2paInput.readError = "No manifest found in asset"
    /\ c2paResult[1].available /\ c2paResult[1].errors = <<>>

\* C31: an 'Invalid' manifest with a signature-success code whose failure list
\* mixes a trust-related failure with a failure that is not about trust (a
\* tamper code such as a hash mismatch) is classified valid/unknown.
C31_MixedFailuresValidUnknown ==
    ( /\ ClassifiedWithState("Invalid")
      /\ HasSignatureSuccess
      /\ \E code \in CodesOf("failure") : IsTrustCode(code)
      /\ \E code \in CodesOf("failure") : ~IsTrustCode(code) )
    => Classified("valid", "unknown")

\* C31 witness: the failures are an untrusted signing credential and a data
\* hash mismatch, and the classification is valid/unknown.
C31_Witness ==
    /\ ClassifiedWithState("Invalid") /\ HasSignatureSuccess
    /\ Some("signingCredential.untrusted") \in CodesOf("failure")
    /\ Some("assertion.dataHash.mismatch") \in CodesOf("failure")
    /\ Classified("valid", "unknown")

=============================================================================
